---------------------------- MODULE Spec2Model ----------------------------
(***************************************************************************)
(* Valuation engine of Portfolio-Tracker: the price cache, the quote       *)
(* adapters, the currency converter and the portfolio aggregator of        *)
(* src/lib/price-service.ts, and the ledger replay of                      *)
(* src/app/api/portfolio-snapshots/route.ts.                               *)
(*                                                                         *)
(* Conventions.  Time is Date.now() in milliseconds.  Money amounts and    *)
(* prices are fixed-point integers in thousandths (1.234 is 1234); an      *)
(* exchange rate is in thousandths too (0.137 is 137).  A symbol or a      *)
(* cache key is a sequence of one-character strings.                       *)
(***************************************************************************)
EXTENDS Integers, Sequences, FiniteSets, TLC

VARIABLES
    \* ---- ledger replay (portfolio-snapshots/route.ts) ----
    transactions,   \* the Transaction[] handed to calculateHoldingsAtDate
    targetDate,     \* the Date handed to calculateHoldingsAtDate
    holdings,       \* the HoldingAtDate[] it returned
    ledgerPc,       \* "input" before the call, "done" after it
    hist,           \* the generateHistoryFromTransactions call in progress
    \* ---- price cache (price-service.ts) ----
    now,            \* Date.now()
    ticks,          \* how many times the clock has advanced
    priceCache,     \* priceCache.cache: Map from key to CachedPrice
    got,            \* the last PriceCache.get: its key, its time, what it returned
    written,        \* per key, the last PriceCache.set since the last clear()
    \* ---- quote adapters, converter, aggregator (price-service.ts) ----
    frame,          \* per task, the fetchPrice call it is in
    calls,          \* how many fetchPrice / convert calls were made directly
    rateCache,      \* CurrencyConverter.cache of the converter in use
    fx,             \* the convert / getExchangeRate call in progress
    calc,           \* the calculatePortfolioTotal call in progress
    \* ---- route handlers (app/api) ----
    portfolio_snapshots,  \* the rows of the portfolio_snapshots table
    request,        \* per connection, the route handler call in progress
    served          \* how many requests the handlers have taken

apiVars == <<portfolio_snapshots, request, served>>
ledgerVars == <<transactions, targetDate, holdings, ledgerPc, hist, apiVars>>
clockVars == <<now, ticks>>
fetchVars == <<frame, calls>>
fxVars == <<rateCache, fx>>
priceVars == <<now, ticks, priceCache, got, written, frame, calls, rateCache, fx, calc>>

vars == <<transactions, targetDate, holdings, ledgerPc, hist,
          now, ticks, priceCache, got, written, frame, calls, rateCache, fx, calc,
          portfolio_snapshots, request, served>>

(***************************************************************************)
(* Strings: sequences of one-character strings                             *)
(***************************************************************************)

LowerCase == <<"a", "b", "c", "d", "e", "f", "g", "h", "i", "j", "k", "l", "m",
               "n", "o", "p", "q", "r", "s", "t", "u", "v", "w", "x", "y", "z">>
UpperCase == <<"A", "B", "C", "D", "E", "F", "G", "H", "I", "J", "K", "L", "M",
               "N", "O", "P", "Q", "R", "S", "T", "U", "V", "W", "X", "Y", "Z">>

ToUpperChar(c) ==
    IF \E i \in 1..Len(LowerCase) : LowerCase[i] = c
    THEN UpperCase[CHOOSE i \in 1..Len(LowerCase) : LowerCase[i] = c]
    ELSE c

ToLowerChar(c) ==
    IF \E i \in 1..Len(UpperCase) : UpperCase[i] = c
    THEN LowerCase[CHOOSE i \in 1..Len(UpperCase) : UpperCase[i] = c]
    ELSE c

\* String.prototype.toUpperCase / toLowerCase
ToUpperCase(str) == [i \in 1..Len(str) |-> ToUpperChar(str[i])]
ToLowerCase(str) == [i \in 1..Len(str) |-> ToLowerChar(str[i])]

(***************************************************************************)
(* Maps: functions whose domain is the set of keys present                 *)
(***************************************************************************)

EmptyMap == [k \in {} |-> 0]

MapPut(m, key, value) ==
    [k \in (DOMAIN m) \cup {key} |-> IF k = key THEN value ELSE m[k]]

\* null
Null == [null |-> TRUE]

(***************************************************************************)
(* Idle values of the variables a specification does not use               *)
(***************************************************************************)

IdleHist ==
    [pc |-> "idle", baseCurrency |-> "", daysBack |-> 0, now |-> 0,
     cutoffDate |-> 0, startDate |-> 0, allHoldings |-> <<>>,
     pricesInBaseCurrency |-> EmptyMap, snapshots |-> <<>>, response |-> ""]

Connections == {"c1", "c2"}

IdleRequest ==
    [pc |-> "idle", route |-> "", body |-> <<>>, currentQty |-> 0, status |-> 0,
     source |-> "", snapshots |-> <<>>, inserted |-> 0, reads |-> 0,
     serial |-> 0, stored |-> <<>>, txError |-> FALSE, currentValue |-> Null]

ApiIdle ==
    /\ portfolio_snapshots = <<>>
    /\ request = [c \in Connections |-> IdleRequest]
    /\ served = 0

LedgerIdle ==
    /\ transactions = <<>>
    /\ targetDate = 0
    /\ holdings = <<>>
    /\ ledgerPc = "idle"
    /\ hist = IdleHist
    /\ ApiIdle

NoGet == [key |-> <<>>, at |-> 0, value |-> Null, called |-> FALSE]

Tasks == {"calc", "a"}

IdleFrame ==
    [pc |-> "idle", market |-> "", symbol |-> <<>>, key |-> <<>>,
     hit |-> FALSE, tencentReqs |-> 0, yahooReqs |-> 0, geckoReqs |-> 0,
     tencent |-> "none", yahoo |-> "none",
     status |-> "none", result |-> Null]

IdleFx ==
    [pc |-> "idle", op |-> "", owner |-> "", amount |-> 0, from |-> "", to |-> "",
     hit |-> FALSE, liveReqs |-> 0, live |-> "none", fallback |-> FALSE,
     status |-> "none", rate |-> 0, value |-> 0]

IdleCalc ==
    [pc |-> "idle", assets |-> <<>>, baseCurrency |-> "", i |-> 0,
     priceResult |-> Null, assetDetails |-> <<>>, totalValue |-> 0,
     delayFrom |-> 0, unpriced |-> {}, unconverted |-> {}, returned |-> 0,
     quoteReqs |-> <<>>, fxReqs |-> <<>>, pushedAt |-> 0,
     earlierRates |-> EmptyMap]

PriceIdle ==
    /\ now = 0
    /\ ticks = 0
    /\ priceCache = EmptyMap
    /\ got = NoGet
    /\ written = EmptyMap
    /\ frame = [t \in Tasks |-> IdleFrame]
    /\ calls = 0
    /\ rateCache = EmptyMap
    /\ fx = IdleFx
    /\ calc = IdleCalc

(***************************************************************************)
(* Ledger replay: calculateHoldingsAtDate                                  *)
(***************************************************************************)

\* Most transactions of a ledger handed to the replay.
MaxTx == 3

LedgerGroups == { <<"AAPL", "US">>, <<"AAPL", "HK">>, <<"BTC", "CRYPTO">> }
LedgerQuantities == {1, 2}
LedgerDates == {1, 2}
TargetDates == {1, 2}

Transaction ==
    { [symbol |-> g[1], market_type |-> g[2], transaction_type |-> ty,
       quantity |-> q, transaction_date |-> d] :
        g \in LedgerGroups, ty \in {"BUY", "SELL"},
        q \in LedgerQuantities, d \in LedgerDates }

Ledgers == UNION { [1..n -> Transaction] : n \in 0..MaxTx }

\* `${tx.symbol}:${tx.market_type}`
HoldingKey(symbol, market_type) == <<symbol, market_type>>

\* tx.transaction_type === 'BUY' ? tx.quantity : -tx.quantity
SignedQty(tx) ==
    IF tx.transaction_type = "BUY" THEN tx.quantity ELSE 0 - tx.quantity

\* Mutant of SkipTx: the boundary date is skipped too.
SkipTxOnBoundary(tx, target) == tx.transaction_date >= target

\* if (txDate > targetDate) continue
SkipTx(tx, target) == tx.transaction_date > target

\* Index of the entry of holdingsMap with this key, 0 when there is none.
MapIndex(holdingsMap, key) ==
    IF \E i \in 1..Len(holdingsMap) : holdingsMap[i].key = key
    THEN CHOOSE i \in 1..Len(holdingsMap) : holdingsMap[i].key = key
    ELSE 0

\* Mutant of HoldingsStep: a quantity that would go below zero is held at 0.
HoldingsStepClamped(holdingsMap, tx, target) ==
    IF tx.transaction_date > target THEN holdingsMap
    ELSE LET key == <<tx.symbol, tx.market_type>>
             qty == IF tx.transaction_type = "BUY" THEN tx.quantity
                    ELSE 0 - tx.quantity
             at  == IF \E i \in 1..Len(holdingsMap) : holdingsMap[i].key = key
                    THEN CHOOSE i \in 1..Len(holdingsMap) : holdingsMap[i].key = key
                    ELSE 0
             floor(q) == IF q < 0 THEN 0 ELSE q
         IN  IF at # 0
             THEN [holdingsMap EXCEPT ![at].quantity = floor(@ + qty)]
             ELSE Append(holdingsMap,
                         [key |-> key, symbol |-> tx.symbol,
                          market_type |-> tx.market_type, quantity |-> floor(qty)])

\* One iteration of the loop over the transactions.  holdingsMap is the
\* Map in insertion order: a sequence of entries with distinct keys.
HoldingsStep(holdingsMap, tx, target) ==
    IF SkipTx(tx, target) THEN holdingsMap
    ELSE LET key == HoldingKey(tx.symbol, tx.market_type)
             qty == SignedQty(tx)
             at  == MapIndex(holdingsMap, key)
         IN  IF at # 0
             THEN [holdingsMap EXCEPT ![at].quantity = @ + qty]
             ELSE Append(holdingsMap,
                         [key |-> key, symbol |-> tx.symbol,
                          market_type |-> tx.market_type, quantity |-> qty])

RECURSIVE HoldingsFold(_, _, _)
HoldingsFold(txs, target, holdingsMap) ==
    IF txs = <<>> THEN holdingsMap
    ELSE HoldingsFold(Tail(txs), target,
                      HoldingsStep(holdingsMap, Head(txs), target))

\* Mutant of KeepHolding: every group is kept, whatever it nets to.
KeepHoldingAny(h) == TRUE

\* Mutant of KeepHolding: a group that nets to zero is kept.
KeepHoldingNonNegative(h) == h.quantity >= 0

\* .filter(h => h.quantity > 0)
KeepHolding(h) == h.quantity > 0

StripKey(h) ==
    [symbol |-> h.symbol, market_type |-> h.market_type, quantity |-> h.quantity]

RECURSIVE StripKeys(_)
StripKeys(s) ==
    IF s = <<>> THEN <<>> ELSE <<StripKey(Head(s))>> \o StripKeys(Tail(s))

calculateHoldingsAtDate(txs, target) ==
    StripKeys(SelectSeq(HoldingsFold(txs, target, <<>>), KeepHolding))

InitLedger ==
    /\ transactions \in Ledgers
    /\ targetDate \in TargetDates
    /\ holdings = <<>>
    /\ ledgerPc = "input"
    /\ hist = IdleHist
    /\ ApiIdle
    /\ PriceIdle

CalculateHoldings ==
    /\ ledgerPc = "input"
    /\ holdings' = calculateHoldingsAtDate(transactions, targetDate)
    /\ ledgerPc' = "done"
    /\ UNCHANGED <<transactions, targetDate, hist, apiVars>>
    /\ UNCHANGED priceVars

NextLedger == CalculateHoldings

SpecLedger == InitLedger /\ [][NextLedger]_vars

(***************************************************************************)
(* Claims about the ledger replay                                          *)
(***************************************************************************)

\* Reference: the signed quantities of the transactions of one (symbol,
\* market) group dated on or before d, summed over the positions 1..n.
RECURSIVE NetQuantity(_, _, _, _)
NetQuantity(txs, g, d, n) ==
    IF n = 0 THEN 0
    ELSE NetQuantity(txs, g, d, n - 1) +
         (IF /\ txs[n].symbol = g[1]
             /\ txs[n].market_type = g[2]
             /\ txs[n].transaction_date <= d
          THEN (IF txs[n].transaction_type = "BUY"
                THEN txs[n].quantity ELSE 0 - txs[n].quantity)
          ELSE 0)

HoldingsOf(g) ==
    { i \in 1..Len(holdings) :
        holdings[i].symbol = g[1] /\ holdings[i].market_type = g[2] }

\* C9: calculateHoldingsAtDate reports, for each (symbol, market) group, the
\* net of +quantity for BUY and -quantity for SELL over the transactions
\* dated on or before the target date, and reports a group exactly when
\* that net is > 0: a group with zero or negative net is not in the output.
C9_NetPositiveOnly ==
    ledgerPc = "done" =>
        \A g \in LedgerGroups :
            LET net == NetQuantity(transactions, g, targetDate, Len(transactions))
            IN  IF net > 0
                THEN /\ Cardinality(HoldingsOf(g)) = 1
                     /\ \A i \in HoldingsOf(g) : holdings[i].quantity = net
                ELSE HoldingsOf(g) = {}

\* A replay that reports one group and drops another whose transactions
\* on or before the target date net to zero or less.
C9_Witness ==
    /\ ledgerPc = "done"
    /\ Len(holdings) >= 1
    /\ \E g \in LedgerGroups :
          /\ \E n \in 1..Len(transactions) :
                /\ transactions[n].symbol = g[1]
                /\ transactions[n].market_type = g[2]
                /\ transactions[n].transaction_date <= targetDate
          /\ NetQuantity(transactions, g, targetDate, Len(transactions)) <= 0
          /\ HoldingsOf(g) = {}

DatedOnOrBefore(tx) == tx.transaction_date <= targetDate

\* C10: a transaction dated exactly the target date is included, and the
\* transactions dated after it have no effect: the output is the output on
\* the ledger without them, and on that ledger the transactions dated the
\* target date count exactly as they do for any later target date.
C10_InclusiveBoundary ==
    ledgerPc = "done" =>
        LET kept == SelectSeq(transactions, DatedOnOrBefore)
        IN  /\ holdings = calculateHoldingsAtDate(kept, targetDate)
            /\ holdings = calculateHoldingsAtDate(kept, targetDate + 1)

\* A replay whose ledger holds a transaction dated the target date, in a
\* reported group, and a transaction dated after the target date.
C10_Witness ==
    /\ ledgerPc = "done"
    /\ \E n \in 1..Len(transactions) :
          /\ transactions[n].transaction_date = targetDate
          /\ HoldingsOf(<<transactions[n].symbol, transactions[n].market_type>>) # {}
    /\ \E n \in 1..Len(transactions) :
          transactions[n].transaction_date > targetDate

\* The ledger txs with the transactions at positions m and n exchanged.
Exchanged(txs, m, n) ==
    [i \in 1..Len(txs) |-> IF i = m THEN txs[n] ELSE IF i = n THEN txs[m] ELSE txs[i]]

\* The set of the holdings of a list.
HoldingSet(hs) == { hs[i] : i \in 1..Len(hs) }

SymbolsAscending == <<"AAPL", "BTC">>

\* a <= b as strings
SymbolLeq(a, b) ==
    \E i, j \in 1..Len(SymbolsAscending) :
        SymbolsAscending[i] = a /\ SymbolsAscending[j] = b /\ i <= j

\* C12: the list returned by calculateHoldingsAtDate is ordered by symbol.
C12_OrderedBySymbol ==
    ledgerPc = "done" =>
        \A i, j \in 1..Len(holdings) :
            i < j => SymbolLeq(holdings[i].symbol, holdings[j].symbol)

(***************************************************************************)
(* PriceCache (price-service.ts)                                           *)
(***************************************************************************)

\* private readonly TTL = 10 * 60 * 1000
PriceTTL == 600000

\* Mutant of CacheGet: an entry exactly TTL old still counts as fresh.
CacheGetInclusive(cache, t, symbol) ==
    LET k == ToUpperCase(symbol)
    IN  IF k \in DOMAIN cache /\ t - cache[k].timestamp <= PriceTTL
        THEN cache[k].result
        ELSE Null

\* PriceCache.get at time t
CacheGet(cache, t, symbol) ==
    LET k == ToUpperCase(symbol)
    IN  IF k \in DOMAIN cache /\ t - cache[k].timestamp < PriceTTL
        THEN cache[k].result
        ELSE Null

\* PriceCache.set at time t
CacheSet(cache, t, symbol, result) ==
    MapPut(cache, ToUpperCase(symbol), [result |-> result, timestamp |-> t])

\* PriceCache.clear
CacheClear == EmptyMap

\* Most advances of the clock in one behaviour.
MaxTicks == 3

\* The clock advances by a millisecond or by just under the price TTL, so
\* that an entry can be 1, TTL - 1, TTL, ... milliseconds old.
TickSteps == {1, PriceTTL - 1}

Tick ==
    /\ ticks < MaxTicks
    /\ \E d \in TickSteps : now' = now + d
    /\ ticks' = ticks + 1

(***************************************************************************)
(* The cache alone: get, set and clear called directly                     *)
(***************************************************************************)

UnitKeys == { <<"b", "t", "c">>, <<"B", "T", "C">>, <<"E", "T", "H">> }

UnitResults ==
    { [price |-> p, currency |-> "USD", symbol |-> <<"X">>] : p \in {1000, 2000} }

InitCache == PriceIdle /\ LedgerIdle

PriceCacheSet ==
    /\ \E k \in UnitKeys, r \in UnitResults :
         /\ priceCache' = CacheSet(priceCache, now, k, r)
         /\ written' = MapPut(written, ToUpperCase(k), [result |-> r, at |-> now])
    /\ got' = NoGet
    /\ UNCHANGED <<clockVars, ledgerVars, fetchVars, fxVars, calc>>

PriceCacheGet ==
    /\ \E k \in UnitKeys :
         got' = [key |-> k, at |-> now, value |-> CacheGet(priceCache, now, k),
                 called |-> TRUE]
    /\ UNCHANGED <<clockVars, priceCache, written, ledgerVars, fetchVars, fxVars, calc>>

PriceCacheClear ==
    /\ priceCache' = CacheClear
    /\ written' = EmptyMap
    /\ got' = NoGet
    /\ UNCHANGED <<clockVars, ledgerVars, fetchVars, fxVars, calc>>

CacheTick ==
    /\ Tick
    /\ got' = NoGet
    /\ UNCHANGED <<priceCache, written, ledgerVars, fetchVars, fxVars, calc>>

NextCache == PriceCacheSet \/ PriceCacheGet \/ PriceCacheClear \/ CacheTick

SpecCache == InitCache /\ [][NextCache]_vars

\* C7: a get returns the value of the last set of its key while that set is
\* less than TTL old, and a miss (null) once it is TTL old or older; a set
\* on an existing key replaces both the value and the timestamp.
C7_SetGetTTL ==
    /\ got.called =>
         LET k == ToUpperCase(got.key)
         IN  IF k \in DOMAIN written /\ got.at - written[k].at < PriceTTL
             THEN got.value = written[k].result
             ELSE got.value = Null
    /\ \A k \in DOMAIN written :
         /\ k \in DOMAIN priceCache
         /\ priceCache[k] = [result |-> written[k].result, timestamp |-> written[k].at]

\* A get that misses on an entry exactly TTL old, the entry having been
\* overwritten before (two sets of the key happened at different times).
C7_Witness ==
    /\ got.called
    /\ ToUpperCase(got.key) \in DOMAIN written
    /\ got.at - written[ToUpperCase(got.key)].at = PriceTTL
    /\ got.value = Null
    /\ written[ToUpperCase(got.key)].at > 0

\* A get that hits an entry one millisecond short of TTL old.
C7_WitnessFresh ==
    /\ got.called
    /\ ToUpperCase(got.key) \in DOMAIN written
    /\ got.at - written[ToUpperCase(got.key)].at = PriceTTL - 1
    /\ got.value # Null

(***************************************************************************)
(* Quote adapters (price-service.ts)                                       *)
(***************************************************************************)

\* String.prototype.endsWith / startsWith
EndsWith(str, suffix) ==
    /\ Len(str) >= Len(suffix)
    /\ SubSeq(str, Len(str) - Len(suffix) + 1, Len(str)) = suffix

StartsWith(str, prefix) ==
    /\ Len(str) >= Len(prefix)
    /\ SubSeq(str, 1, Len(prefix)) = prefix

\* str.replace(pattern, ''): the first occurrence of the pattern is removed.
RemoveFirst(str, pattern) ==
    LET at == { i \in 1..(Len(str) - Len(pattern) + 1) :
                  SubSeq(str, i, i + Len(pattern) - 1) = pattern }
    IN  IF at = {} THEN str
        ELSE LET i == CHOOSE j \in at : \A k \in at : j <= k
             IN  SubSeq(str, 1, i - 1) \o SubSeq(str, i + Len(pattern), Len(str))

\* str.padStart(width, '0')
PadStart(str, width) ==
    [i \in 1..(IF Len(str) >= width THEN 0 ELSE width - Len(str)) |-> "0"] \o str

SuffixSS == <<".", "S", "S">>
SuffixSZ == <<".", "S", "Z">>
SuffixHK == <<".", "H", "K">>

\* CNStockFetcher.fetchPrice: normalizedSymbol and prefix
CNNormalized(symbol) ==
    IF EndsWith(symbol, SuffixSS) THEN RemoveFirst(symbol, SuffixSS)
    ELSE IF EndsWith(symbol, SuffixSZ) THEN RemoveFirst(symbol, SuffixSZ)
    ELSE symbol

CNPrefix(symbol) ==
    IF EndsWith(symbol, SuffixSS) THEN <<"s", "h">>
    ELSE IF EndsWith(symbol, SuffixSZ) THEN <<"s", "z">>
    ELSE IF StartsWith(symbol, <<"6">>) THEN <<"s", "h">>
    ELSE IF StartsWith(symbol, <<"0">>) \/ StartsWith(symbol, <<"3">>)
         THEN <<"s", "z">>
    ELSE <<"s", "h">>

\* Mutant of HKNormalized: the code is not padded to five digits.
HKNormalizedUnpadded(symbol) ==
    IF EndsWith(symbol, SuffixHK) THEN RemoveFirst(symbol, SuffixHK) ELSE symbol

\* HKStockFetcher.fetchPrice: normalizedSymbol
HKNormalized(symbol) ==
    PadStart(IF EndsWith(symbol, SuffixHK) THEN RemoveFirst(symbol, SuffixHK)
             ELSE symbol, 5)

\* The symbol an adapter puts in its PriceResult.
ResultSymbol(market, symbol) ==
    CASE market = "US" -> symbol
      [] market = "CN" -> CNNormalized(symbol)
      [] market = "HK" -> HKNormalized(symbol)
      [] market = "CRYPTO" -> ToUpperCase(symbol)

\* const cacheKey = ... of each adapter
CacheKey(market, symbol) ==
    CASE market = "US" -> <<"U", "S", ":">> \o symbol
      [] market = "CN" -> <<"C", "N", ":">> \o CNPrefix(symbol) \o CNNormalized(symbol)
      [] market = "HK" -> <<"H", "K", ":", "h", "k">> \o HKNormalized(symbol)
      [] market = "CRYPTO" -> <<"C", "R", "Y", "P", "T", "O", ":">> \o symbol

\* The currency an adapter's primary source quotes in.
PrimaryCurrency(market) ==
    CASE market = "US" -> "USD"
      [] market = "CN" -> "CNY"
      [] market = "HK" -> "HKD"
      [] market = "CRYPTO" -> "USD"

\* parseFloat on the price field of a Tencent quote line
ParseFloat(field) ==
    CASE field = "2.00" -> [nan |-> FALSE, value |-> 2000]
      [] field = "0.00" -> [nan |-> FALSE, value |-> 0]
      [] field = "-1.00" -> [nan |-> FALSE, value |-> 0 - 1000]
      [] OTHER -> [nan |-> TRUE, value |-> 0]

\* What the Tencent quote source can answer: an HTTP error, a text with no
\* ="..." part, the none-match line v_pv_none_match="1", and quote lines
\* whose price field is empty, not a number, zero, negative or positive.
TencentPayloads ==
    { [ok |-> FALSE, matched |-> FALSE, fields |-> <<>>],
      [ok |-> TRUE, matched |-> FALSE, fields |-> <<>>],
      [ok |-> TRUE, matched |-> TRUE, fields |-> <<"1">>] }
    \cup
    { [ok |-> TRUE, matched |-> TRUE,
       fields |-> <<"200", "NAME", "CODE", f, "1.00">>] :
        f \in {"", "N/A", "0.00", "-1.00", "2.00"} }

\* The checks both Tencent paths make on a response (US: lines 81-106;
\* CN, HK: the response.ok test and parseTencentResponse): the price, or
\* null when the response is rejected.
TencentPrice(payload) ==
    IF ~payload.ok THEN Null
    ELSE IF ~payload.matched THEN Null
    ELSE IF Len(payload.fields) < 5 \/ payload.fields[4] = "" THEN Null
    ELSE LET price == ParseFloat(payload.fields[4])
         IN  IF price.nan \/ price.value = 0 THEN Null
             ELSE [price |-> price.value]

\* What yahooFinance.quote can do: throw, resolve to nothing, resolve to a
\* quote without a numeric regularMarketPrice, or to a quote with one.
YahooQuotes ==
    { [kind |-> "throws", numeric |-> FALSE, regularMarketPrice |-> 0, currency |-> ""],
      [kind |-> "null", numeric |-> FALSE, regularMarketPrice |-> 0, currency |-> ""],
      [kind |-> "quote", numeric |-> FALSE, regularMarketPrice |-> 0, currency |-> "USD"] }
    \cup
    { [kind |-> "quote", numeric |-> TRUE, regularMarketPrice |-> p, currency |-> c] :
        p \in {0, 3000}, c \in {"", "USD"} }

\* fetchFromYahooFinance: the result, or null when it throws
YahooResult(quote, symbol) ==
    IF quote.kind # "quote" THEN Null
    ELSE IF ~quote.numeric THEN Null
    ELSE [price |-> quote.regularMarketPrice,
          currency |-> IF quote.currency = "" THEN "USD" ELSE quote.currency,
          symbol |-> symbol]

\* What the CoinGecko source can answer for the requested coin id: an HTTP
\* error, no entry for the id, an entry without usd, or an entry with usd.
GeckoPayloads ==
    { [ok |-> FALSE, entry |-> FALSE, hasUsd |-> FALSE, usd |-> 0],
      [ok |-> TRUE, entry |-> FALSE, hasUsd |-> FALSE, usd |-> 0],
      [ok |-> TRUE, entry |-> TRUE, hasUsd |-> FALSE, usd |-> 0] }
    \cup
    { [ok |-> TRUE, entry |-> TRUE, hasUsd |-> TRUE, usd |-> p] :
        p \in {0, 5000} }

\* CryptoFetcher.fetchPrice: the result, or null when it throws
GeckoResult(payload, symbol) ==
    IF ~payload.ok THEN Null
    ELSE IF ~payload.entry \/ ~payload.hasUsd \/ payload.usd = 0 THEN Null
    ELSE [price |-> payload.usd, currency |-> "USD", symbol |-> ToUpperCase(symbol)]

(***************************************************************************)
(* One fetchPrice call: the steps between its awaits                       *)
(***************************************************************************)

\* Mutant of CacheAfterGet: a lookup that finds a stale entry evicts it.
CacheAfterGetEvicting(cache, t, symbol) ==
    LET k == ToUpperCase(symbol)
    IN  IF k \in DOMAIN cache /\ t - cache[k].timestamp >= PriceTTL
        THEN [j \in (DOMAIN cache) \ {k} |-> cache[j]]
        ELSE cache

\* PriceCache.get leaves the map as it is, a stale entry included.
CacheAfterGet(cache, t, symbol) == cache

\* The adapter up to its first await: the cache key, the cache lookup, and
\* on a miss the request to the adapter's first source.
StartFrame(cache, t, market, symbol) ==
    LET key == CacheKey(market, symbol)
        cached == CacheGet(cache, t, key)
        f == [IdleFrame EXCEPT !.market = market, !.symbol = symbol, !.key = key]
    IN  IF cached # Null
        THEN [f EXCEPT !.pc = "done", !.hit = TRUE, !.status = "ok",
                       !.result = cached]
        ELSE IF market = "CRYPTO"
             THEN [f EXCEPT !.pc = "gecko", !.geckoReqs = 1]
             ELSE [f EXCEPT !.pc = "tencent", !.tencentReqs = 1]

\* Whether a rejected Tencent response is followed by the Yahoo request:
\* only fetchFromTencentUSStock catches into fetchFromYahooFinance.
FallsThrough(market) == market = "US"

\* The frame after the Tencent response.
FrameAfterTencent(f, payload) ==
    LET quote == TencentPrice(payload)
    IN  IF quote # Null
        THEN [f EXCEPT !.pc = "done", !.tencent = "ok", !.status = "ok",
                       !.result = [price |-> quote.price,
                                   currency |-> PrimaryCurrency(f.market),
                                   symbol |-> ResultSymbol(f.market, f.symbol)]]
        ELSE IF FallsThrough(f.market)
             THEN [f EXCEPT !.pc = "yahoo", !.tencent = "failed",
                            !.yahooReqs = @ + 1]
             ELSE [f EXCEPT !.pc = "done", !.tencent = "failed",
                            !.status = "failed"]

\* Mutant of FrameAfterYahoo: a failed Yahoo request is retried once.
FrameAfterYahooRetry(f, quote) ==
    LET result == YahooResult(quote, f.symbol)
    IN  IF result # Null
        THEN [f EXCEPT !.pc = "done", !.yahoo = "ok", !.status = "ok",
                       !.result = result]
        ELSE IF f.yahooReqs < 2
             THEN [f EXCEPT !.yahooReqs = @ + 1]
             ELSE [f EXCEPT !.pc = "done", !.yahoo = "failed", !.status = "failed"]

\* The frame after yahooFinance.quote settled.
FrameAfterYahoo(f, quote) ==
    LET result == YahooResult(quote, f.symbol)
    IN  IF result # Null
        THEN [f EXCEPT !.pc = "done", !.yahoo = "ok", !.status = "ok",
                       !.result = result]
        ELSE [f EXCEPT !.pc = "done", !.yahoo = "failed", !.status = "failed"]

\* The frame after the CoinGecko response.
FrameAfterGecko(f, payload) ==
    LET result == GeckoResult(payload, f.symbol)
    IN  IF result # Null
        THEN [f EXCEPT !.pc = "done", !.status = "ok", !.result = result]
        ELSE [f EXCEPT !.pc = "done", !.status = "failed"]

\* Mutant of CacheAfterSource: the Yahoo path forgets priceCache.set.
CacheAfterSourceTencentOnly(cache, t, f) ==
    IF f.pc = "done" /\ f.status = "ok" /\ f.yahoo # "ok"
    THEN CacheSet(cache, t, f.key, f.result)
    ELSE cache

\* Mutant of CacheAfterSource: an entry already in the cache is kept.
CacheAfterSourceKeepFirst(cache, t, f) ==
    IF f.pc = "done" /\ f.status = "ok" /\ ~f.hit
       /\ ToUpperCase(f.key) \notin DOMAIN cache
    THEN [k \in (DOMAIN cache) \cup {ToUpperCase(f.key)} |->
            IF k = ToUpperCase(f.key)
            THEN [result |-> f.result, timestamp |-> t]
            ELSE cache[k]]
    ELSE cache

\* The cache after a source answered: priceCache.set(cacheKey, result) on
\* success, nothing on the paths that throw or fall through.
CacheAfterSource(cache, t, f) ==
    IF f.pc = "done" /\ f.status = "ok"
    THEN CacheSet(cache, t, f.key, f.result)
    ELSE cache

\* The log of successful writes, kept beside the cache.
WrittenAfterSource(w, t, f) ==
    IF f.pc = "done" /\ f.status = "ok"
    THEN MapPut(w, ToUpperCase(f.key), [result |-> f.result, at |-> t])
    ELSE w

\* Most fetchPrice (or convert) calls made directly in one behaviour.
MaxCalls == 2

AAPL == <<"A", "A", "P", "L">>
Moutai == <<"6", "0", "0", "5", "1", "9">>
Tencent700 == <<"7", "0", "0">>
PingAn == <<"0", "0", "0", "0", "0", "1">>
Btc == <<"b", "t", "c">>

FetchInputs ==
    { <<"US", AAPL>>, <<"CN", Moutai>>, <<"HK", Tencent700>>, <<"CRYPTO", Btc>> }

\* fetcher.fetchPrice(symbol) called by task t, up to its first await.
FetchPrice(t) ==
    /\ frame[t].pc = "idle"
    /\ calls < MaxCalls
    /\ \E input \in FetchInputs :
         /\ frame' = [frame EXCEPT
                        ![t] = StartFrame(priceCache, now, input[1], input[2])]
         /\ priceCache' = CacheAfterGet(priceCache, now,
                                        CacheKey(input[1], input[2]))
    /\ calls' = calls + 1
    /\ UNCHANGED <<clockVars, got, written, fxVars, calc, ledgerVars>>

\* The Tencent response arrives and the adapter runs to its next await or
\* to its end.
TencentResponse(t) ==
    /\ frame[t].pc = "tencent"
    /\ \E payload \in TencentPayloads :
         LET f == FrameAfterTencent(frame[t], payload)
         IN  /\ frame' = [frame EXCEPT ![t] = f]
             /\ priceCache' = CacheAfterSource(priceCache, now, f)
             /\ written' = WrittenAfterSource(written, now, f)
    /\ UNCHANGED <<clockVars, got, calls, fxVars, calc, ledgerVars>>

\* yahooFinance.quote settles and fetchFromYahooFinance runs to its end.
YahooResponse(t) ==
    /\ frame[t].pc = "yahoo"
    /\ \E quote \in YahooQuotes :
         LET f == FrameAfterYahoo(frame[t], quote)
         IN  /\ frame' = [frame EXCEPT ![t] = f]
             /\ priceCache' = CacheAfterSource(priceCache, now, f)
             /\ written' = WrittenAfterSource(written, now, f)
    /\ UNCHANGED <<clockVars, got, calls, fxVars, calc, ledgerVars>>

\* The CoinGecko response arrives and CryptoFetcher.fetchPrice runs to its end.
GeckoResponse(t) ==
    /\ frame[t].pc = "gecko"
    /\ \E payload \in GeckoPayloads :
         LET f == FrameAfterGecko(frame[t], payload)
         IN  /\ frame' = [frame EXCEPT ![t] = f]
             /\ priceCache' = CacheAfterSource(priceCache, now, f)
             /\ written' = WrittenAfterSource(written, now, f)
    /\ UNCHANGED <<clockVars, got, calls, fxVars, calc, ledgerVars>>

\* The direct caller takes the result or the error of the finished call.
FetchReturn(t) ==
    /\ frame[t].pc = "done"
    /\ frame' = [frame EXCEPT ![t] = IdleFrame]
    /\ UNCHANGED <<clockVars, priceCache, got, written, calls, fxVars, calc,
                   ledgerVars>>

\* clearPriceCache()
ClearPriceCache ==
    /\ priceCache' = CacheClear
    /\ written' = EmptyMap
    /\ UNCHANGED <<clockVars, got, fetchVars, fxVars, calc, ledgerVars>>

\* Time passes.
ClockTick ==
    /\ Tick
    /\ UNCHANGED <<priceCache, got, written, fetchVars, fxVars, calc, ledgerVars>>

InitFetch == PriceIdle /\ LedgerIdle

NextFetch ==
    \/ FetchPrice("a")
    \/ TencentResponse("a")
    \/ YahooResponse("a")
    \/ GeckoResponse("a")
    \/ FetchReturn("a")
    \/ ClearPriceCache
    \/ ClockTick

SpecFetch == InitFetch /\ [][NextFetch]_vars

(***************************************************************************)
(* Claims about the quote adapters and the price cache                     *)
(***************************************************************************)

AtSource(f) == f.pc \in {"tencent", "yahoo", "gecko"}

SourceRequests(f) == f.tencentReqs + f.yahooReqs + f.geckoReqs

\* C4: every PriceResult an adapter returns, and so every value in the
\* price cache, has price > 0.
C4_PricesPositive ==
    /\ \A k \in DOMAIN priceCache : priceCache[k].result.price > 0
    /\ \A t \in Tasks : frame[t].status = "ok" => frame[t].result.price > 0

\* C5: an adapter looks in the price cache before it contacts a source (a
\* call that found a fresh entry made no request and returned the entry);
\* every successful fetch writes its result to the cache under the call's
\* key with the current time; and so a fetchPrice that starts less than TTL
\* after a successful fetch of the same key (and no clear since) returns
\* that result without contacting a source.
C5_CacheBeforeSource ==
    [][\A t \in Tasks :
         LET k == ToUpperCase(frame'[t].key)
         IN  /\ frame'[t].hit => SourceRequests(frame'[t]) = 0
             /\ (frame[t].pc = "idle" /\ frame'[t].pc # "idle"
                 /\ k \in DOMAIN written /\ now - written[k].at < PriceTTL)
                => /\ frame'[t].pc = "done"
                   /\ frame'[t].status = "ok"
                   /\ frame'[t].result = written[k].result
                   /\ SourceRequests(frame'[t]) = 0
             /\ (AtSource(frame[t]) /\ frame'[t].status = "ok")
                => /\ k \in DOMAIN priceCache'
                   /\ priceCache'[k] = [result |-> frame'[t].result,
                                        timestamp |-> now]
      ]_vars

\* A second fetchPrice of a key, one millisecond before the entry written
\* by the first expires: served from the cache.
C5_Witness ==
    \E t \in Tasks :
        /\ frame[t].pc = "done"
        /\ frame[t].hit
        /\ SourceRequests(frame[t]) = 0
        /\ ToUpperCase(frame[t].key) \in DOMAIN written
        /\ now - written[ToUpperCase(frame[t].key)].at = PriceTTL - 1

\* C6: one fetchPrice call of the US adapter makes at most one request to
\* the primary source (Tencent) and at most one to the secondary (Yahoo);
\* the secondary is asked only after the primary failed, never after it
\* succeeded; and the call fails only after both have failed.
C6_OneFallback ==
    \A t \in Tasks :
        frame[t].market = "US" =>
            /\ frame[t].tencentReqs <= 1
            /\ frame[t].yahooReqs <= 1
            /\ frame[t].geckoReqs = 0
            /\ frame[t].yahooReqs = 1 =>
                  (frame[t].tencentReqs = 1 /\ frame[t].tencent = "failed")
            /\ frame[t].tencent = "ok" =>
                  (frame[t].yahooReqs = 0 /\ frame[t].status = "ok")
            /\ frame[t].status = "failed" =>
                  /\ frame[t].pc = "done"
                  /\ frame[t].tencentReqs = 1 /\ frame[t].tencent = "failed"
                  /\ frame[t].yahooReqs = 1 /\ frame[t].yahoo = "failed"

\* A US call that failed: both sources were asked once and both failed.
C6_Witness ==
    \E t \in Tasks :
        /\ frame[t].market = "US"
        /\ frame[t].pc = "done"
        /\ frame[t].status = "failed"
        /\ frame[t].tencentReqs = 1
        /\ frame[t].yahooReqs = 1

\* C8: the cache changes only by clear() or by the set of a call whose
\* source just answered with a usable price: the cache lookup (hit or
\* miss) and a failing call leave every entry, stale ones included, as it
\* was.
C8_CacheFrame ==
    [][priceCache' # priceCache =>
         \/ priceCache' = EmptyMap /\ frame' = frame
         \/ \E t \in Tasks :
              /\ AtSource(frame[t])
              /\ frame'[t].pc = "done"
              /\ frame'[t].status = "ok"
              /\ priceCache' = MapPut(priceCache, ToUpperCase(frame'[t].key),
                                      [result |-> frame'[t].result,
                                       timestamp |-> now])
      ]_vars

\* A call that failed while the cache holds a stale entry of its key: the
\* entry is still there.
C8_Witness ==
    \E t \in Tasks :
        /\ frame[t].pc = "done"
        /\ frame[t].status = "failed"
        /\ ToUpperCase(frame[t].key) \in DOMAIN priceCache
        /\ now - priceCache[ToUpperCase(frame[t].key)].timestamp >= PriceTTL

(***************************************************************************)
(* CurrencyConverter (price-service.ts)                                    *)
(***************************************************************************)

\* private readonly cacheTTL = 60 * 60 * 1000
FxTTL == 3600000

\* private readonly fallbackRates, in thousandths
FallbackRates ==
    [p \in { <<"CNY", "USD">>, <<"CNY", "HKD">>, <<"HKD", "USD">>,
             <<"HKD", "CNY">>, <<"USD", "CNY">>, <<"USD", "HKD">> } |->
        CASE p = <<"CNY", "USD">> -> 137
          [] p = <<"CNY", "HKD">> -> 1070
          [] p = <<"HKD", "USD">> -> 128
          [] p = <<"HKD", "CNY">> -> 930
          [] p = <<"USD", "CNY">> -> 7300
          [] p = <<"USD", "HKD">> -> 7800]

\* Mutant of FallbackRate: a pair the table lacks converts at a rate of 1.
FallbackRateOrOne(from, to) ==
    IF <<from, to>> \in DOMAIN FallbackRates
    THEN FallbackRates[<<from, to>>]
    ELSE 1000

\* this.fallbackRates[fromCurrency]?.[toCurrency], 0 standing for undefined
FallbackRate(from, to) ==
    IF <<from, to>> \in DOMAIN FallbackRates
    THEN FallbackRates[<<from, to>>]
    ELSE 0

\* `${fromCurrency}_${toCurrency}`
RateKey(from, to) == <<from, to>>

\* What the live FX source can answer: an HTTP error, a body without
\* rates, rates without the target currency, a zero rate, a rate.
FxPayloads ==
    { [ok |-> FALSE, hasRates |-> FALSE, hasRate |-> FALSE, rate |-> 0],
      [ok |-> TRUE, hasRates |-> FALSE, hasRate |-> FALSE, rate |-> 0],
      [ok |-> TRUE, hasRates |-> TRUE, hasRate |-> FALSE, rate |-> 0],
      [ok |-> TRUE, hasRates |-> TRUE, hasRate |-> TRUE, rate |-> 0],
      [ok |-> TRUE, hasRates |-> TRUE, hasRate |-> TRUE, rate |-> 920] }

\* The rate getExchangeRate takes from the live response, 0 when it throws
\* instead (lines 480-490).
LiveRate(payload) ==
    IF ~payload.ok THEN 0
    ELSE IF ~payload.hasRates \/ ~payload.hasRate \/ payload.rate = 0 THEN 0
    ELSE payload.rate

\* amount * rate, both in thousandths
Times(amount, rate) == (amount * rate) \div 1000

\* cached && Date.now() - cached.timestamp < this.cacheTTL
RateIsFresh(cache, t, key) ==
    key \in DOMAIN cache /\ t - cache[key].timestamp < FxTTL

\* getExchangeRate up to its first await: the cache lookup and, on a miss,
\* the request to the live source.
StartRate(f, cache, t) ==
    LET key == RateKey(f.from, f.to)
    IN  IF RateIsFresh(cache, t, key)
        THEN [f EXCEPT !.pc = "done", !.hit = TRUE, !.status = "returned",
                       !.rate = cache[key].rate,
                       !.value = IF f.op = "convert"
                                 THEN Times(f.amount, cache[key].rate) ELSE 0]
        ELSE [f EXCEPT !.pc = "live", !.liveReqs = 1]

\* Mutant of StartFx: convert asks getExchangeRate for every pair.
StartFxNoShortcut(op, owner, amount, from, to, cache, t) ==
    StartRate([IdleFx EXCEPT !.op = op, !.owner = owner, !.amount = amount,
                             !.from = from, !.to = to], cache, t)

\* convert up to its first await: the identity when the currencies are the
\* same, getExchangeRate otherwise.  getExchangeRate called directly makes
\* no such test.
StartFx(op, owner, amount, from, to, cache, t) ==
    LET f == [IdleFx EXCEPT !.op = op, !.owner = owner, !.amount = amount,
                            !.from = from, !.to = to]
    IN  IF op = "convert" /\ from = to
        THEN [f EXCEPT !.pc = "done", !.status = "returned", !.value = amount]
        ELSE StartRate(f, cache, t)

\* The call after the live source answered: the live rate, else the
\* fallback rate of the pair, else the error.
FxAfterLive(f, payload) ==
    LET live == LiveRate(payload)
        fallbackRate == FallbackRate(f.from, f.to)
        rate == IF live # 0 THEN live ELSE fallbackRate
    IN  IF rate # 0
        THEN [f EXCEPT !.pc = "done", !.status = "returned",
                       !.live = IF live # 0 THEN "ok" ELSE "failed",
                       !.fallback = (live = 0),
                       !.rate = rate,
                       !.value = IF f.op = "convert"
                                 THEN Times(f.amount, rate) ELSE 0]
        ELSE [f EXCEPT !.pc = "done", !.status = "threw", !.live = "failed"]

\* Mutant of RateCacheAfterLive: only a live rate is cached.
RateCacheAfterLiveOnly(cache, t, f) ==
    IF f.status = "returned" /\ ~f.fallback
    THEN [k \in (DOMAIN cache) \cup {<<f.from, f.to>>} |->
            IF k = <<f.from, f.to>> THEN [rate |-> f.rate, timestamp |-> t]
            ELSE cache[k]]
    ELSE cache

\* this.cache.set(cacheKey, {rate, timestamp: Date.now()}) on both paths
\* that return a rate.
RateCacheAfterLive(cache, t, f) ==
    IF f.status = "returned"
    THEN MapPut(cache, RateKey(f.from, f.to), [rate |-> f.rate, timestamp |-> t])
    ELSE cache

(***************************************************************************)
(* The converter alone: convert and getExchangeRate called directly on     *)
(* one CurrencyConverter                                                   *)
(***************************************************************************)

FxPairs ==
    { <<"USD", "CNY">>, <<"CNY", "USD">>, <<"USD", "EUR">>, <<"HKD", "HKD">> }

FxAmounts == {1000, 2000}

\* converter.convert(amount, from, to)
Convert ==
    /\ fx.pc = "idle"
    /\ calls < MaxCalls
    /\ \E p \in FxPairs, amount \in FxAmounts :
         fx' = StartFx("convert", "direct", amount, p[1], p[2], rateCache, now)
    /\ calls' = calls + 1
    /\ UNCHANGED <<clockVars, priceCache, got, written, frame, rateCache, calc,
                   ledgerVars>>

\* converter.getExchangeRate(from, to)
GetExchangeRate ==
    /\ fx.pc = "idle"
    /\ calls < MaxCalls
    /\ \E p \in FxPairs :
         fx' = StartFx("getExchangeRate", "direct", 0, p[1], p[2], rateCache, now)
    /\ calls' = calls + 1
    /\ UNCHANGED <<clockVars, priceCache, got, written, frame, rateCache, calc,
                   ledgerVars>>

\* The live FX response arrives and getExchangeRate runs to its end.
FxResponse ==
    /\ fx.pc = "live"
    /\ \E payload \in FxPayloads :
         LET f == FxAfterLive(fx, payload)
         IN  /\ fx' = f
             /\ rateCache' = RateCacheAfterLive(rateCache, now, f)
    /\ UNCHANGED <<clockVars, priceCache, got, written, fetchVars, calc,
                   ledgerVars>>

\* The direct caller takes the result or the error of the finished call.
FxReturn ==
    /\ fx.pc = "done"
    /\ fx.owner = "direct"
    /\ fx' = IdleFx
    /\ UNCHANGED <<clockVars, priceCache, got, written, fetchVars, rateCache,
                   calc, ledgerVars>>

\* The clock advances by a millisecond or by just under the rate TTL.
FxTickSteps == {1, FxTTL - 1}

FxTick ==
    /\ ticks < MaxTicks
    /\ \E d \in FxTickSteps : now' = now + d
    /\ ticks' = ticks + 1
    /\ UNCHANGED <<priceCache, got, written, fetchVars, fxVars, calc, ledgerVars>>

InitFx == PriceIdle /\ LedgerIdle

NextFx == Convert \/ GetExchangeRate \/ FxResponse \/ FxReturn \/ FxTick

SpecFx == InitFx /\ [][NextFx]_vars

\* C3: getExchangeRate(from, to) with from # to takes the rate from a cache
\* entry less than one hour old without asking the live source; otherwise
\* it asks the live source once and returns its rate; when the live source
\* fails it returns the fallback table's entry for exactly (from, to); and
\* when the table has no such entry it throws: it never returns a rate
\* that is none of these.
C3_RateResolution ==
    [][/\ (fx.pc = "idle" /\ fx'.pc # "idle" /\ fx'.from # fx'.to) =>
            LET key == <<fx'.from, fx'.to>>
            IN  IF key \in DOMAIN rateCache /\ now - rateCache[key].timestamp < FxTTL
                THEN /\ fx'.pc = "done" /\ fx'.status = "returned"
                     /\ fx'.rate = rateCache[key].rate
                     /\ fx'.liveReqs = 0
                ELSE fx'.pc = "live" /\ fx'.liveReqs = 1
       /\ (fx.pc = "live" /\ fx'.pc # "live" /\ fx.from # fx.to) =>
            /\ fx'.pc = "done" /\ fx'.liveReqs = 1
            /\ IF fx'.live = "ok"
               THEN fx'.status = "returned" /\ fx'.rate > 0 /\ ~fx'.fallback
               ELSE IF <<fx.from, fx.to>> \in DOMAIN FallbackRates
               THEN /\ fx'.status = "returned"
                    /\ fx'.rate = FallbackRates[<<fx.from, fx.to>>]
               ELSE fx'.status = "threw"
      ]_vars

\* A call that threw: its pair has a cache entry an hour old or older, the
\* live source was asked once and failed, and the fallback table has no
\* entry for the pair.
C3_Witness ==
    /\ fx.pc = "done"
    /\ fx.status = "threw"
    /\ fx.from # fx.to
    /\ fx.liveReqs = 1
    /\ <<fx.from, fx.to>> \notin DOMAIN FallbackRates
    /\ RateKey(fx.from, fx.to) \in DOMAIN rateCache
    /\ now - rateCache[RateKey(fx.from, fx.to)].timestamp >= FxTTL

(***************************************************************************)
(* calculatePortfolioTotal (price-service.ts)                              *)
(***************************************************************************)

\* await delay(200)
DelayMs == 200

\* factory.getFetcher(asset.market_type) finds a fetcher
SupportedMarkets == {"US", "CN", "HK", "CRYPTO"}

\* Math.round(totalValue * 100) / 100, on thousandths
Round2(x) == ((x + 5) \div 10) * 10

\* Mutant of AfterCatch: the first failure ends the loop.
AfterCatchBreak(c) ==
    [c EXCEPT !.pc = "loop", !.i = Len(c.assets) + 1,
              !.assetDetails = Append(@, [asset |-> c.assets[c.i], price |-> 0,
                                          value |-> 0,
                                          currency |-> c.baseCurrency])]

\* The catch block: the asset is pushed with price 0 and value 0 in the
\* base currency, and the loop goes on with the next asset (no delay).
AfterCatch(c) ==
    [c EXCEPT !.pc = "loop", !.i = @ + 1,
              !.assetDetails = Append(@, [asset |-> c.assets[c.i], price |-> 0,
                                          value |-> 0,
                                          currency |-> c.baseCurrency])]

\* Mutant of AfterConvert: the asset is put at the front of assetDetails.
AfterConvertUnshift(c, value, t) ==
    [c EXCEPT !.pc = "delay", !.delayFrom = t,
              !.assetDetails = <<[asset |-> c.assets[c.i],
                                  price |-> c.priceResult.price,
                                  value |-> value,
                                  currency |-> c.priceResult.currency]>> \o @,
              !.totalValue = @ + value]

\* Lines 582-590: the asset is pushed with its price and converted value
\* and the value is added to the total; then the delay starts.
AfterConvert(c, value, t) ==
    [c EXCEPT !.pc = "delay", !.delayFrom = t,
              !.assetDetails = Append(@, [asset |-> c.assets[c.i],
                                          price |-> c.priceResult.price,
                                          value |-> value,
                                          currency |-> c.priceResult.currency]),
              !.totalValue = @ + value]

\* The requests one finished fetchPrice call made to each quote source.
QuoteRequests(f) ==
    [tencent |-> f.tencentReqs, yahoo |-> f.yahooReqs, gecko |-> f.geckoReqs]

\* Most assets in one calculatePortfolioTotal call.
MaxAssets == 2

CalcAssets ==
    { [symbol |-> AAPL, market_type |-> "US", quantity |-> 2],
      [symbol |-> Moutai, market_type |-> "CN", quantity |-> 1],
      [symbol |-> Tencent700, market_type |-> "HK", quantity |-> 1],
      [symbol |-> Btc, market_type |-> "CRYPTO", quantity |-> 1],
      [symbol |-> <<"U", "S", "D">>, market_type |-> "CASH", quantity |-> 1] }

AssetLists == UNION { [1..n -> CalcAssets] : n \in 0..MaxAssets }

BaseCurrencies == {"USD", "EUR"}

\* calculatePortfolioTotal({assets, baseCurrency}): lines 562-567.  The
\* call makes its own CurrencyConverter, whose cache starts empty.
CalcStart ==
    /\ calc.pc = "idle"
    /\ \E assets \in AssetLists, base \in BaseCurrencies :
         calc' = [IdleCalc EXCEPT !.pc = "loop", !.assets = assets,
                                  !.baseCurrency = base, !.i = 1]
    /\ rateCache' = EmptyMap
    /\ fx' = IdleFx
    /\ UNCHANGED <<clockVars, priceCache, got, written, fetchVars, ledgerVars>>

\* The loop is over: the result is returned.
CalcFinish ==
    /\ calc.pc = "loop"
    /\ calc.i > Len(calc.assets)
    /\ calc' = [calc EXCEPT !.pc = "returned",
                            !.returned = Round2(calc.totalValue)]
    /\ UNCHANGED <<clockVars, priceCache, got, written, fetchVars, fxVars,
                   ledgerVars>>

\* The next asset: getFetcher, which throws into the catch block for a
\* market without a fetcher, then fetchPrice up to its first await.
CalcNextAsset ==
    /\ calc.pc = "loop"
    /\ calc.i <= Len(calc.assets)
    /\ LET asset == calc.assets[calc.i]
       IN  IF asset.market_type \notin SupportedMarkets
           THEN /\ calc' = [AfterCatch(calc) EXCEPT !.unpriced = @ \cup {calc.i},
                                                     !.pushedAt = now]
                /\ UNCHANGED <<frame, priceCache>>
           ELSE /\ calc' = [calc EXCEPT !.pc = "pricing"]
                /\ frame' = [frame EXCEPT
                               !["calc"] = StartFrame(priceCache, now,
                                                      asset.market_type,
                                                      asset.symbol)]
                /\ priceCache' = CacheAfterGet(priceCache, now,
                                     CacheKey(asset.market_type, asset.symbol))
    /\ UNCHANGED <<clockVars, got, written, calls, fxVars, ledgerVars>>

\* fetchPrice settled: on an error the catch block runs; on a result the
\* value in the original currency is handed to converter.convert, which
\* runs up to its first await.
CalcPriced ==
    /\ calc.pc = "pricing"
    /\ frame["calc"].pc = "done"
    /\ IF frame["calc"].status = "failed"
       THEN /\ calc' = [AfterCatch(calc) EXCEPT
                            !.unpriced = @ \cup {calc.i},
                            !.quoteReqs = Append(@, QuoteRequests(frame["calc"])),
                            !.pushedAt = now]
            /\ UNCHANGED fx
       ELSE LET priceResult == frame["calc"].result
                valueInOriginalCurrency ==
                    priceResult.price * calc.assets[calc.i].quantity
            IN  /\ calc' = [calc EXCEPT
                                !.pc = "converting",
                                !.priceResult = priceResult,
                                !.quoteReqs = Append(@, QuoteRequests(frame["calc"]))]
                /\ fx' = StartFx("convert", "calc", valueInOriginalCurrency,
                                 priceResult.currency, calc.baseCurrency,
                                 rateCache, now)
    /\ frame' = [frame EXCEPT !["calc"] = IdleFrame]
    /\ UNCHANGED <<clockVars, priceCache, got, written, calls, rateCache,
                   ledgerVars>>

\* convert settled: on an error the catch block runs; on a value the asset
\* is recorded and the delay starts.
CalcConverted ==
    /\ calc.pc = "converting"
    /\ fx.pc = "done"
    /\ IF fx.status = "threw"
       THEN calc' = [AfterCatch(calc) EXCEPT !.unconverted = @ \cup {calc.i},
                                             !.priceResult = Null,
                                             !.fxReqs = Append(@, fx.liveReqs),
                                             !.pushedAt = now]
       ELSE calc' = [AfterConvert(calc, fx.value, now) EXCEPT
                       !.priceResult = Null,
                       !.fxReqs = Append(@, fx.liveReqs),
                       !.pushedAt = now]
    /\ fx' = IdleFx
    /\ UNCHANGED <<clockVars, priceCache, got, written, fetchVars, rateCache,
                   ledgerVars>>

\* The 200 ms timer fired: the loop goes on with the next asset.
CalcDelayElapsed ==
    /\ calc.pc = "delay"
    /\ now' = IF now >= calc.delayFrom + DelayMs THEN now
              ELSE calc.delayFrom + DelayMs
    /\ calc' = [calc EXCEPT !.pc = "loop", !.i = @ + 1, !.delayFrom = 0]
    /\ UNCHANGED <<ticks, priceCache, got, written, fetchVars, fxVars, ledgerVars>>

InitCalc == PriceIdle /\ LedgerIdle

NextCalc ==
    \/ CalcStart
    \/ CalcNextAsset
    \/ TencentResponse("calc")
    \/ YahooResponse("calc")
    \/ GeckoResponse("calc")
    \/ CalcPriced
    \/ FxResponse
    \/ CalcConverted
    \/ CalcDelayElapsed
    \/ CalcFinish

SpecCalc == InitCalc /\ [][NextCalc]_vars


(***************************************************************************)
(* Properties of calculatePortfolioTotal                                   *)
(***************************************************************************)

RECURSIVE SumValuesExcept(_, _, _)
\* The sum of the recorded values of the positions 1..n outside `skip`.
SumValuesExcept(details, n, skip) ==
    IF n = 0 THEN 0
    ELSE SumValuesExcept(details, n - 1, skip)
         + (IF n \in skip THEN 0 ELSE details[n].value)

\* Every position whose pricing failed is recorded with price 0 and value 0
\* and the positions are recorded in order, one for each asset met so far.
FailuresRecorded ==
    /\ \A k \in 1..Len(calc.assetDetails) :
         calc.assetDetails[k].asset = calc.assets[k]
    /\ \A k \in calc.unpriced :
         /\ k \in 1..Len(calc.assetDetails)
         /\ calc.assetDetails[k].price = 0
         /\ calc.assetDetails[k].value = 0

\* C1 (as stated): when pricing a position fails the position is recorded
\* with price 0 and value 0, every remaining position is processed, the
\* call returns, and the returned total equals the sum of the other
\* positions' base-currency values.
C1_TotalIsPlainSum ==
    /\ calc.pc \in {"idle", "loop", "pricing", "converting", "delay", "returned"}
    /\ FailuresRecorded
    /\ (calc.pc = "returned" /\ calc.unpriced # {}) =>
         /\ Len(calc.assetDetails) = Len(calc.assets)
         /\ calc.returned = SumValuesExcept(calc.assetDetails, Len(calc.assets),
                                            calc.unpriced)

\* C1 (amended): as above, but the returned total equals the sum of the
\* other positions' base-currency values rounded to two decimal places.
C1_FailureIsolation ==
    /\ calc.pc \in {"idle", "loop", "pricing", "converting", "delay", "returned"}
    /\ FailuresRecorded
    /\ (calc.pc = "returned" /\ calc.unpriced # {}) =>
         /\ Len(calc.assetDetails) = Len(calc.assets)
         /\ calc.returned =
              Round2(SumValuesExcept(calc.assetDetails, Len(calc.assets),
                                     calc.unpriced))

\* A returned call whose first position failed in fetchPrice and whose
\* second position was priced and converted to a value that is not zero.
C1_Witness ==
    /\ calc.pc = "returned"
    /\ Len(calc.assets) = 2
    /\ 1 \in calc.unpriced
    /\ calc.assets[1].market_type \in SupportedMarkets
    /\ calc.assetDetails[2].value # 0
    /\ calc.returned # 0

\* C2 (as stated): when the conversion of any position fails the call
\* fails and returns no total.
C2_ConversionFailureAborts ==
    ~(calc.pc = "returned" /\ calc.unconverted # {})


\* The source requests of the call that are awaiting their response.
InFlight ==
    (IF AtSource(frame["calc"]) THEN 1 ELSE 0) + (IF fx.pc = "live" THEN 1 ELSE 0)

\* C17: calculatePortfolioTotal values its assets one after the other in
\* input order: a fetchPrice call is open only while the asset at i is
\* being priced and a convert call only while it is being converted, all
\* assets before i being recorded already; at most one source request is
\* awaited at any time; and assetDetails holds one entry for each asset
\* processed, in input order, one for every asset when the call returns.
C17_Sequential ==
    /\ InFlight <= 1
    /\ frame["calc"].pc # "idle" =>
         /\ calc.pc = "pricing"
         /\ fx.pc = "idle"
         /\ frame["calc"].symbol = calc.assets[calc.i].symbol
         /\ frame["calc"].market = calc.assets[calc.i].market_type
    /\ fx.pc # "idle" => calc.pc = "converting"
    /\ calc.pc \in {"loop", "pricing", "converting"} =>
         Len(calc.assetDetails) = calc.i - 1
    /\ calc.pc = "delay" => Len(calc.assetDetails) = calc.i
    /\ calc.pc = "returned" => Len(calc.assetDetails) = Len(calc.assets)
    /\ \A k \in 1..Len(calc.assetDetails) :
         calc.assetDetails[k].asset = calc.assets[k]

\* The second of two assets is being converted after the first was priced
\* and converted.
C17_Witness ==
    /\ calc.pc = "converting"
    /\ fx.pc = "live"
    /\ calc.i = 2
    /\ calc.assets[1] # calc.assets[2]
    /\ Len(calc.assetDetails) = 1
    /\ calc.assetDetails[1].value # 0

\* C18: the processing of an asset after the first begins (getFetcher,
\* fetchPrice) only when the delay has elapsed since the asset before it
\* was recorded.
C18_DelayBetweenAssets ==
    [][(calc.pc = "loop" /\ calc.i > 1 /\ calc.i <= Len(calc.assets)
        /\ calc' # calc)
       => now >= calc.pushedAt + DelayMs]_vars

(***************************************************************************)
(* History synthesizer: generateHistoryFromTransactions                    *)
(* (portfolio-snapshots/route.ts)                                          *)
(***************************************************************************)

\* One calendar day, the step of setDate(getDate() + 1), in milliseconds.
DayMs == 86400000

\* Most rows of the transactions table.
MaxHistTx == 2

HistGroups == { <<AAPL, "US">>, <<Tencent700, "HK">>, <<Btc, "CRYPTO">> }

\* transaction_date is a DATE: new Date('YYYY-MM-DD') is that day's
\* midnight.  Days 1 to 3; day 3 is today.
HistDates == { d * DayMs : d \in 1..3 }

HistTransaction ==
    { [symbol |-> g[1], market_type |-> g[2], transaction_type |-> ty,
       quantity |-> IF ty = "BUY" THEN 2 ELSE 1, transaction_date |-> d] :
        g \in HistGroups, ty \in {"BUY", "SELL"}, d \in HistDates }
    \cup
    { [symbol |-> AAPL, market_type |-> "US", transaction_type |-> "SELL",
       quantity |-> 2, transaction_date |-> 3 * DayMs] }

\* .order('transaction_date', { ascending: true }): the rows in ascending
\* date order, rows of one date in any order.
HistLedgers ==
    { l \in UNION { [1..n -> HistTransaction] : n \in 0..MaxHistTx } :
        \A i, j \in 1..Len(l) :
            i < j => l[i].transaction_date <= l[j].transaction_date }

\* new Date() when the request arrives: some time into day 3.
HistNows == { 3 * DayMs + 1000 }

\* parseInt(days || '30', 10)
HistDays == {1, 2}

\* allHoldings.map(h => ({ id, symbol, market_type, quantity }))
AssetOf(h) ==
    [symbol |-> h.symbol, market_type |-> h.market_type, quantity |-> h.quantity]

RECURSIVE AssetsOf(_)
AssetsOf(hs) ==
    IF hs = <<>> THEN <<>> ELSE <<AssetOf(Head(hs))>> \o AssetsOf(Tail(hs))

\* Mutant of PricePerUnit: the price in the quote's own currency.
PricePerUnitUnconverted(detail) ==
    IF detail.asset.quantity > 0 THEN detail.price ELSE 0

\* detail.asset.quantity > 0 ? detail.value / detail.asset.quantity : 0
PricePerUnit(detail) ==
    IF detail.asset.quantity > 0 THEN detail.value \div detail.asset.quantity
    ELSE 0

RECURSIVE PricesInBaseCurrency(_, _)
\* The Map filled by the loop over result.assetDetails, after n details.
PricesInBaseCurrency(details, n) ==
    IF n = 0 THEN EmptyMap
    ELSE MapPut(PricesInBaseCurrency(details, n - 1),
                HoldingKey(details[n].asset.symbol, details[n].asset.market_type),
                PricePerUnit(details[n]))

RECURSIVE DayTotalOfUnits(_, _, _)
\* Mutant of DayTotal: the per-unit prices are added, not quantity * price.
DayTotalOfUnits(holdingsAtDate, prices, n) ==
    IF n = 0 THEN 0
    ELSE LET holding == holdingsAtDate[n]
             key == <<holding.symbol, holding.market_type>>
         IN  DayTotalOfUnits(holdingsAtDate, prices, n - 1)
             + (IF key \in DOMAIN prices /\ prices[key] # 0
                THEN prices[key]
                ELSE 0)

RECURSIVE DayTotal(_, _, _)
\* totalValue after the first n holdings of a day: a holding whose price
\* is missing from the Map, or is 0, adds nothing.
DayTotal(holdingsAtDate, prices, n) ==
    IF n = 0 THEN 0
    ELSE LET holding == holdingsAtDate[n]
             key == HoldingKey(holding.symbol, holding.market_type)
         IN  DayTotal(holdingsAtDate, prices, n - 1)
             + (IF key \in DOMAIN prices /\ prices[key] # 0
                THEN holding.quantity * prices[key]
                ELSE 0)

RECURSIVE DailySnapshots(_, _, _, _)
\* while (currentDate <= now) { ...; currentDate.setDate(getDate() + 1) }
DailySnapshots(txs, currentDate, nowDate, prices) ==
    IF currentDate > nowDate THEN <<>>
    ELSE LET holdingsAtDate == calculateHoldingsAtDate(txs, currentDate)
         IN  <<[recorded_at |-> currentDate,
                total_value |-> DayTotal(holdingsAtDate, prices,
                                         Len(holdingsAtDate))]>>
             \o DailySnapshots(txs, currentDate + DayMs, nowDate, prices)

\* Mutant of EmptyHistory: one point of value 0 for today.
EmptyHistoryToday(t) == <<[recorded_at |-> t, total_value |-> 0]>>

\* snapshots: [] of the response for a table without transactions
EmptyHistory(t) == <<>>

\* generateHistoryFromTransactions(supabase, baseCurrency, daysBack) from
\* the answer of its transactions query up to its await of
\* calculatePortfolioTotal, or to its return when it does not get there.
\* The clock is read twice (now, then cutoffDate) and may advance by a
\* millisecond (tick) between the two reads.
GenerateHistoryFrom(base, days, txError, tick) ==
    /\ LET call == [IdleHist EXCEPT !.baseCurrency = base, !.daysBack = days]
           earliestTx == transactions[1].transaction_date
           cutoffDate == (now + tick) - days * DayMs
           startDate == IF earliestTx > cutoffDate THEN earliestTx
                        ELSE cutoffDate
           allHoldings == calculateHoldingsAtDate(transactions, now)
           dated == [call EXCEPT !.now = now, !.cutoffDate = cutoffDate,
                                 !.startDate = startDate,
                                 !.allHoldings = allHoldings]
       IN  IF txError
           THEN /\ hist' = [call EXCEPT !.pc = "done", !.response = "error"]
                /\ UNCHANGED <<now, calc, fxVars>>
           ELSE IF transactions = <<>>
           THEN /\ hist' = [call EXCEPT !.pc = "done", !.response = "empty",
                                        !.snapshots = EmptyHistory(now)]
                /\ UNCHANGED <<now, calc, fxVars>>
           ELSE IF allHoldings = <<>>
           THEN /\ hist' = [dated EXCEPT
                              !.pc = "done", !.response = "generated",
                              !.snapshots = DailySnapshots(transactions,
                                                startDate, now, EmptyMap)]
                /\ now' = now + tick
                /\ UNCHANGED <<calc, fxVars>>
           ELSE /\ hist' = [dated EXCEPT !.pc = "pricing"]
                /\ now' = now + tick
                /\ calc' = [IdleCalc EXCEPT !.pc = "loop",
                                            !.assets = AssetsOf(allHoldings),
                                            !.baseCurrency = base, !.i = 1]
                /\ rateCache' = EmptyMap
                /\ fx' = IdleFx
    /\ UNCHANGED <<transactions, targetDate, holdings, ledgerPc, ticks,
                   priceCache, got, written, fetchVars, apiVars>>

\* A call of generateHistoryFromTransactions.
GenerateHistory ==
    /\ hist.pc = "idle"
    /\ \E base \in BaseCurrencies, days \in HistDays, txError \in BOOLEAN,
          tick \in {0, 1} :
         GenerateHistoryFrom(base, days, txError, tick)

\* calculatePortfolioTotal returned: the per-unit prices are taken from
\* its assetDetails, the daily loop runs and the response is sent.
HistoryPriced ==
    /\ hist.pc = "pricing"
    /\ calc.pc = "returned"
    /\ LET prices == PricesInBaseCurrency(calc.assetDetails,
                                          Len(calc.assetDetails))
       IN  hist' = [hist EXCEPT
                      !.pc = "done", !.response = "generated",
                      !.pricesInBaseCurrency = prices,
                      !.snapshots = DailySnapshots(transactions, hist.startDate,
                                                   hist.now, prices)]
    /\ UNCHANGED <<transactions, targetDate, holdings, ledgerPc, priceVars,
                   apiVars>>

InitHistory ==
    /\ transactions \in HistLedgers
    /\ targetDate = 0
    /\ holdings = <<>>
    /\ ledgerPc = "idle"
    /\ hist = IdleHist
    /\ ApiIdle
    /\ now \in HistNows
    /\ ticks = 0
    /\ priceCache = EmptyMap
    /\ got = NoGet
    /\ written = EmptyMap
    /\ frame = [t \in Tasks |-> IdleFrame]
    /\ calls = 0
    /\ rateCache = EmptyMap
    /\ fx = IdleFx
    /\ calc = IdleCalc

NextHistory ==
    \/ GenerateHistory
    \/ CalcNextAsset
    \/ TencentResponse("calc")
    \/ YahooResponse("calc")
    \/ GeckoResponse("calc")
    \/ CalcPriced
    \/ FxResponse
    \/ CalcConverted
    \/ CalcDelayElapsed
    \/ CalcFinish
    \/ HistoryPriced

SpecHistory == InitHistory /\ [][NextHistory]_vars


(***************************************************************************)
(* Properties of the history synthesizer                                   *)
(***************************************************************************)

\* The calendar day of a time.
DayOf(t) == t \div DayMs

\* max(earliest transaction date, today - windowDays), today being the
\* time the call read as `now`.
WindowStart ==
    LET earliest == transactions[1].transaction_date
        back == hist.now - hist.daysBack * DayMs
    IN  IF earliest > back THEN earliest ELSE back

\* C13: a generated history has exactly one point for each calendar day
\* from the day of max(earliest transaction date, today - windowDays)
\* through today, in ascending order, consecutive points one day apart.
C13_OnePointPerDay ==
    (hist.pc = "done" /\ hist.response = "generated") =>
        /\ Len(hist.snapshots) =
             (IF WindowStart > hist.now THEN 0
              ELSE DayOf(hist.now) - DayOf(WindowStart) + 1)
        /\ \A k \in 1..Len(hist.snapshots) :
             DayOf(hist.snapshots[k].recorded_at) = DayOf(WindowStart) + k - 1
        /\ \A k \in 1..(Len(hist.snapshots) - 1) :
             hist.snapshots[k + 1].recorded_at
             = hist.snapshots[k].recorded_at + DayMs

\* A quote or FX request is sent in this step.
SourceContacted ==
    \/ frame'["calc"].tencentReqs > frame["calc"].tencentReqs
    \/ frame'["calc"].yahooReqs > frame["calc"].yahooReqs
    \/ frame'["calc"].geckoReqs > frame["calc"].geckoReqs
    \/ fx'.liveReqs > fx.liveReqs

\* C14: one history call takes one price/FX snapshot, before the daily
\* points: calculatePortfolioTotal is called once, for the current
\* holdings, which are distinct (symbol, market) groups; each of its
\* fetchPrice and convert calls asks each source at most once; no source
\* is asked once the call has its points; and every day's total is
\* computed from the one Map of per-unit prices, whose entries are the
\* converted values of the snapshot divided by the quantities.
C14_FrozenSnapshot ==
    /\ [](/\ calc.pc # "idle" => calc.assets = AssetsOf(hist.allHoldings)
          /\ \A i, j \in 1..Len(hist.allHoldings) :
               (/\ hist.allHoldings[i].symbol = hist.allHoldings[j].symbol
                /\ hist.allHoldings[i].market_type = hist.allHoldings[j].market_type)
               => i = j
          /\ Len(calc.quoteReqs) <= Len(hist.allHoldings)
          /\ Len(calc.fxReqs) <= Len(hist.allHoldings)
          /\ \A k \in 1..Len(calc.quoteReqs) :
               /\ calc.quoteReqs[k].tencent <= 1
               /\ calc.quoteReqs[k].yahoo <= 1
               /\ calc.quoteReqs[k].gecko <= 1
          /\ \A k \in 1..Len(calc.fxReqs) : calc.fxReqs[k] <= 1
          /\ hist.pc = "done" =>
               /\ frame["calc"] = IdleFrame
               /\ fx = IdleFx
               /\ \A k \in 1..Len(calc.assetDetails) :
                    LET detail == calc.assetDetails[k]
                        key == <<detail.asset.symbol, detail.asset.market_type>>
                    IN  /\ key \in DOMAIN hist.pricesInBaseCurrency
                        /\ hist.pricesInBaseCurrency[key] * detail.asset.quantity
                           = detail.value
               /\ \A k \in 1..Len(hist.snapshots) :
                    LET day == calculateHoldingsAtDate(
                                   transactions, hist.snapshots[k].recorded_at)
                    IN  hist.snapshots[k].total_value
                        = DayTotal(day, hist.pricesInBaseCurrency, Len(day)))
    /\ [][/\ SourceContacted =>
               (hist.pc = "pricing" /\ hist'.pc = "pricing"
                /\ hist'.snapshots = <<>>)
          /\ (calc.pc # "idle" /\ calc'.pc # calc.pc /\ calc'.pc = "loop")
               => calc'.i > calc.i
          /\ hist.pc = "done" => UNCHANGED <<calc, frame, fx, rateCache>>
         ]_vars

\* A finished history of two days or more whose holdings were priced with
\* a conversion through the live FX source and whose last point is not 0.
C14_Witness ==
    /\ hist.pc = "done"
    /\ Len(hist.snapshots) >= 2
    /\ \E k \in 1..Len(calc.fxReqs) : calc.fxReqs[k] = 1
    /\ \E k \in 1..Len(calc.quoteReqs) : calc.quoteReqs[k].tencent = 1
    /\ hist.snapshots[Len(hist.snapshots)].total_value # 0


RECURSIVE HoldingsValue(_, _, _)
\* The sum of quantity * per-unit price over the first n holdings of hs, a
\* holding without a price counting 0.
HoldingsValue(hs, prices, n) ==
    IF n = 0 THEN 0
    ELSE HoldingsValue(hs, prices, n - 1)
         + hs[n].quantity
           * (IF <<hs[n].symbol, hs[n].market_type>> \in DOMAIN prices
              THEN prices[<<hs[n].symbol, hs[n].market_type>>]
              ELSE 0)

\* The call is the history of one BUY dated today over a window of 1 day.
OneBuyToday ==
    /\ Len(transactions) = 1
    /\ transactions[1].transaction_type = "BUY"
    /\ transactions[1].transaction_date = DayOf(hist.now) * DayMs
    /\ hist.daysBack = 1

\* quantity * price of a priced and converted position, in the base
\* currency, at the rate the converter resolved.
ConvertedValue(detail, base) ==
    IF detail.currency = base THEN detail.asset.quantity * detail.price
    ELSE Times(detail.asset.quantity * detail.price,
               rateCache[RateKey(detail.currency, base)].rate)

\* C15: the history of one BUY dated today over a window of 1 day has
\* exactly one point, and when the position was priced and converted its
\* value is quantity * current price converted to the base currency; in
\* every history the point of today is the sum, over the holdings as of
\* today, of quantity * the frozen per-unit price in the base currency.
C15_TodayPoint ==
    (hist.pc = "done" /\ hist.response = "generated") =>
        /\ OneBuyToday =>
             /\ Len(hist.snapshots) = 1
             /\ (calc.unpriced = {} /\ calc.unconverted = {}) =>
                  hist.snapshots[1].total_value
                  = ConvertedValue(calc.assetDetails[1], hist.baseCurrency)
        /\ \A k \in 1..Len(hist.snapshots) :
             DayOf(hist.snapshots[k].recorded_at) = DayOf(hist.now) =>
               LET today == calculateHoldingsAtDate(transactions, hist.now)
               IN  hist.snapshots[k].total_value
                   = HoldingsValue(today, hist.pricesInBaseCurrency, Len(today))

\* The history of one BUY of 700.HK dated today over a window of 1 day,
\* priced in HKD and converted: one point, whose value is not 0.
C15_Witness ==
    /\ hist.pc = "done"
    /\ hist.response = "generated"
    /\ OneBuyToday
    /\ calc.unpriced = {}
    /\ calc.unconverted = {}
    /\ calc.assetDetails[1].currency # hist.baseCurrency
    /\ Len(hist.snapshots) = 1
    /\ hist.snapshots[1].total_value # 0

\* C16: while the table has no transactions the history has no points and
\* nothing is priced or converted: no calculatePortfolioTotal, fetchPrice
\* or convert call is made and no cache is written.
C16_EmptyHistory ==
    transactions = <<>> =>
        /\ hist.snapshots = <<>>
        /\ hist.pc \in {"idle", "done"}
        /\ calc = IdleCalc
        /\ frame["calc"] = IdleFrame
        /\ fx = IdleFx
        /\ priceCache = EmptyMap
        /\ rateCache = EmptyMap

\* A call on a table without transactions has returned the empty history.
C16_Witness ==
    /\ transactions = <<>>
    /\ hist.pc = "done"
    /\ hist.response = "empty"
    /\ hist.snapshots = <<>>


(***************************************************************************)
(* Further properties of the converter                                     *)
(***************************************************************************)

\* C19: convert(x, C, C) returns x, whatever the cache holds for the pair
\* (C, C): it makes no cache lookup, no request to the live source and no
\* change to the cache.
C19_IdentityConversion ==
    [][(fx.pc = "idle" /\ fx'.pc # "idle" /\ fx'.op = "convert"
        /\ fx'.from = fx'.to)
       => /\ fx'.pc = "done"
          /\ fx'.status = "returned"
          /\ fx'.value = fx'.amount
          /\ ~fx'.hit
          /\ fx'.liveReqs = 0
          /\ rateCache' = rateCache]_vars

\* convert(x, C, C) has returned x while the cache holds, for the pair
\* (C, C), a fresh rate that is not 1.
C19_Witness ==
    /\ fx.pc = "done"
    /\ fx.op = "convert"
    /\ fx.from = fx.to
    /\ fx.value = fx.amount
    /\ RateKey(fx.from, fx.to) \in DOMAIN rateCache
    /\ rateCache[RateKey(fx.from, fx.to)].rate # 1000
    /\ now - rateCache[RateKey(fx.from, fx.to)].timestamp < FxTTL

\* C20: a rate taken from the fallback table is stored in the cache under
\* its pair with the time of the call, as a live rate is; and a call for a
\* pair whose entry is less than one hour old returns the rate of the
\* entry without a request to the live source, wherever the entry's rate
\* came from.
C20_FallbackCached ==
    [][/\ (fx.pc = "live" /\ fx'.pc = "done" /\ fx'.status = "returned") =>
            /\ RateKey(fx.from, fx.to) \in DOMAIN rateCache'
            /\ rateCache'[RateKey(fx.from, fx.to)]
               = [rate |-> (IF fx'.fallback
                            THEN FallbackRates[<<fx.from, fx.to>>]
                            ELSE fx'.rate),
                  timestamp |-> now]
       /\ (/\ fx.pc = "idle" /\ fx'.pc # "idle" /\ fx'.from # fx'.to
           /\ RateKey(fx'.from, fx'.to) \in DOMAIN rateCache
           /\ now - rateCache[RateKey(fx'.from, fx'.to)].timestamp < FxTTL) =>
            /\ fx'.pc = "done"
            /\ fx'.hit
            /\ fx'.rate = rateCache[RateKey(fx'.from, fx'.to)].rate
            /\ fx'.liveReqs = 0
      ]_vars

\* A call answered from the cache with the fallback rate of its pair, one
\* millisecond short of an hour after the fallback stored it.
C20_Witness ==
    /\ fx.pc = "done"
    /\ fx.hit
    /\ fx.liveReqs = 0
    /\ <<fx.from, fx.to>> \in DOMAIN FallbackRates
    /\ fx.rate = FallbackRates[<<fx.from, fx.to>>]
    /\ now - rateCache[RateKey(fx.from, fx.to)].timestamp = FxTTL - 1


(***************************************************************************)
(* Successive calculatePortfolioTotal calls in one process                 *)
(***************************************************************************)

ValuationLists ==
    { <<[symbol |-> Tencent700, market_type |-> "HK", quantity |-> 1]>>,
      <<[symbol |-> AAPL, market_type |-> "US", quantity |-> 2],
        [symbol |-> Moutai, market_type |-> "CN", quantity |-> 1]>> }

\* The entries of the Map `older` and of the Map `newer`, those of `newer`
\* winning.
MapMerge(older, newer) ==
    [k \in (DOMAIN older) \cup (DOMAIN newer) |->
        IF k \in DOMAIN newer THEN newer[k] ELSE older[k]]

\* calculatePortfolioTotal is called, the call before it (if any) having
\* returned.  `new CurrencyConverter()` (line 564) gives the call a
\* converter whose cache is empty; earlierRates keeps what the converters
\* of the earlier calls had resolved.
ValuePortfolio ==
    /\ calc.pc \in {"idle", "returned"}
    /\ calls < MaxCalls
    /\ \E assets \in ValuationLists :
         calc' = [IdleCalc EXCEPT
                    !.pc = "loop", !.assets = assets, !.baseCurrency = "USD",
                    !.i = 1,
                    !.earlierRates = MapMerge(calc.earlierRates, rateCache)]
    /\ calls' = calls + 1
    /\ rateCache' = EmptyMap
    /\ fx' = IdleFx
    /\ UNCHANGED <<clockVars, priceCache, got, written, frame, ledgerVars>>

InitProcess == PriceIdle /\ LedgerIdle

NextProcess ==
    \/ ValuePortfolio
    \/ CalcNextAsset
    \/ TencentResponse("calc")
    \/ YahooResponse("calc")
    \/ CalcPriced
    \/ FxResponse
    \/ CalcConverted
    \/ CalcDelayElapsed
    \/ CalcFinish

SpecProcess == InitProcess /\ [][NextProcess]_vars

\* C21: a rate for (from, to) resolved during one calculatePortfolioTotal
\* call is served from the cache to every later call of the process made
\* within one hour: no later call asks the live FX source for a pair that
\* an earlier call resolved less than one hour ago.
C21_ProcessWideRateCache ==
    (fx.pc = "live" /\ fx.owner = "calc") =>
        ~(/\ RateKey(fx.from, fx.to) \in DOMAIN calc.earlierRates
          /\ now - calc.earlierRates[RateKey(fx.from, fx.to)].timestamp < FxTTL)


(***************************************************************************)
(* Concurrent fetchPrice callers on the one price cache, interleaved at    *)
(* their await points                                                      *)
(***************************************************************************)

\* Raw symbols in the forms callers write them.
SymbolForms ==
    { <<"HK", Tencent700>>,
      <<"HK", <<"0", "0">> \o Tencent700>>,
      <<"HK", Tencent700 \o SuffixHK>>,
      <<"HK", Tencent700 \o <<".", "h", "k">>>>,
      <<"CN", Moutai>>,
      <<"CN", Moutai \o SuffixSS>>,
      <<"CN", PingAn>>,
      <<"CN", PingAn \o SuffixSZ>>,
      <<"US", AAPL>>,
      <<"US", ToLowerCase(AAPL)>>,
      <<"CRYPTO", Btc>>,
      <<"CRYPTO", ToUpperCase(Btc)>> }

\* fetcher.fetchPrice(symbol) called by task t while the other task may be
\* inside its own call, up to its first await.
FetchForm(t) ==
    /\ frame[t].pc = "idle"
    /\ calls < MaxCalls
    /\ \E input \in SymbolForms :
         /\ frame' = [frame EXCEPT
                        ![t] = StartFrame(priceCache, now, input[1], input[2])]
         /\ priceCache' = CacheAfterGet(priceCache, now,
                                        CacheKey(input[1], input[2]))
    /\ calls' = calls + 1
    /\ UNCHANGED <<clockVars, got, written, fxVars, calc, ledgerVars>>

InitCallers == PriceIdle /\ LedgerIdle

NextCallers ==
    \E t \in Tasks :
        \/ FetchForm(t)
        \/ TencentResponse(t)
        \/ YahooResponse(t)
        \/ GeckoResponse(t)
        \/ FetchReturn(t)

SpecCallers == InitCallers /\ [][NextCallers]_vars


(***************************************************************************)
(* Claims about symbol forms and concurrent callers                        *)
(***************************************************************************)

\* The forms the adapters' rules name as one security: an HK code bare,
\* zero-padded and with its .HK suffix; a CN code and its exchange suffix.
FormClasses ==
    { { <<"HK", Tencent700>>, <<"HK", <<"0", "0">> \o Tencent700>>,
        <<"HK", Tencent700 \o SuffixHK>> },
      { <<"CN", Moutai>>, <<"CN", Moutai \o SuffixSS>> },
      { <<"CN", PingAn>>, <<"CN", PingAn \o SuffixSZ>> } }

SameClass(a, b) == \E c \in FormClasses : a \in c /\ b \in c

DifferOnlyInCase(a, b) ==
    a[1] = b[1] /\ ToUpperCase(a[2]) = ToUpperCase(b[2])

\* The symbol ends in an exchange suffix, in whatever letter case.
HasSuffix(a) ==
    \E suffix \in {SuffixSS, SuffixSZ, SuffixHK} :
        EndsWith(ToUpperCase(a[2]), suffix)

\* Task t starts a fetchPrice call in this step.
Starts(t) == frame[t].pc = "idle" /\ frame'[t].pc # "idle"

\* The form task t asks for.
Asked(t) == <<frame'[t].market, frame'[t].symbol>>

\* A successful fetch of the key of form b is less than TTL old.
FetchedFresh(b) ==
    LET k == ToUpperCase(CacheKey(b[1], b[2]))
    IN  k \in DOMAIN written /\ now - written[k].at < PriceTTL

\* The call of task t is answered from the cache with the result written
\* for form b, and no source is contacted.
ServedFrom(t, b) ==
    /\ frame'[t].pc = "done"
    /\ frame'[t].hit
    /\ frame'[t].status = "ok"
    /\ frame'[t].result = written[ToUpperCase(CacheKey(b[1], b[2]))].result
    /\ SourceRequests(frame'[t]) = 0

\* C22 as stated: forms of one class, and any two symbols that differ only
\* in letter case, share one cache entry.
C22_SharedEntryAnyCase ==
    [][\A t \in Tasks : Starts(t) =>
         \A b \in SymbolForms :
            ((SameClass(Asked(t), b) \/ DifferOnlyInCase(Asked(t), b))
             /\ FetchedFresh(b))
               => ServedFrom(t, b)]_vars

\* C22: forms of one class ('700', '00700', '700.HK'; a code starting with
\* 6 and its '.SS' form; a code starting with 0 and its '.SZ' form) share
\* one cache entry, and so do symbols without exchange suffix that differ
\* only in letter case: within the TTL of a successful fetch of one form,
\* a fetch of the other returns the identical result with no source request.
C22_SharedEntry ==
    [][\A t \in Tasks : Starts(t) =>
         \A b \in SymbolForms :
            ((\/ SameClass(Asked(t), b)
              \/ /\ DifferOnlyInCase(Asked(t), b)
                 /\ ~HasSuffix(Asked(t))
                 /\ ~HasSuffix(b))
             /\ FetchedFresh(b))
               => ServedFrom(t, b)]_vars

\* '700' was fetched from the source by one caller and '700.HK' is then
\* answered from the cache with the same result to the other.
C22_Witness ==
    /\ frame["calc"].pc = "done"
    /\ ~frame["calc"].hit
    /\ frame["calc"].status = "ok"
    /\ frame["calc"].symbol = Tencent700
    /\ frame["a"].pc = "done"
    /\ frame["a"].hit
    /\ frame["a"].symbol = Tencent700 \o SuffixHK
    /\ frame["a"].result = frame["calc"].result
    /\ SourceRequests(frame["a"]) = 0


\* C23: the total returned by valuePortfolio is never negative, whatever
\* the quote and FX sources answer.
C23_TotalNonNegative ==
    calc.pc = "returned" => calc.returned >= 0


\* A PriceResult with all its fields, as one adapter call builds it.
CompleteResult(r) ==
    /\ r # Null
    /\ DOMAIN r = {"price", "currency", "symbol"}
    /\ r.currency \in {"USD", "CNY", "HKD"}

\* Each cache entry is the complete result of the latest successful fetch
\* of its key, stamped with the time of that write.
EntriesAreLastWrites ==
    /\ DOMAIN priceCache = DOMAIN written
    /\ \A k \in DOMAIN priceCache :
         /\ CompleteResult(priceCache[k].result)
         /\ priceCache[k] = [result |-> written[k].result,
                             timestamp |-> written[k].at]

\* A finished call holds a complete result or has failed.
CallersAnswered ==
    \A t \in Tasks :
        frame[t].pc = "done" =>
           \/ frame[t].status = "ok" /\ CompleteResult(frame[t].result)
           \/ frame[t].status = "failed" /\ ~frame[t].hit /\ frame[t].result = Null

\* A call answered from the cache gets the result of the entry as it is at
\* that moment.
HitsReadTheEntry ==
    \A t \in Tasks :
        (Starts(t) /\ frame'[t].hit) =>
            /\ ToUpperCase(frame'[t].key) \in DOMAIN priceCache
            /\ frame'[t].result = priceCache[ToUpperCase(frame'[t].key)].result

\* C24: however concurrent fetchPrice calls interleave at their awaits,
\* each cache entry is at every moment the complete result of the latest
\* successful fetch of its key (last write wins), and every finished call
\* has a complete result, its own or the cached one, or has failed.
C24_RaceKeepsCacheWhole ==
    /\ [](EntriesAreLastWrites /\ CallersAnswered)
    /\ [][HitsReadTheEntry]_vars

\* Two calls missed the cold cache on one key, both sources answered with
\* different prices, and the entry holds the result of one of them.
C24_Witness ==
    /\ \A t \in Tasks :
         /\ frame[t].pc = "done"
         /\ frame[t].status = "ok"
         /\ ~frame[t].hit
         /\ SourceRequests(frame[t]) >= 1
    /\ ToUpperCase(frame["a"].key) = ToUpperCase(frame["calc"].key)
    /\ frame["a"].result # frame["calc"].result
    /\ priceCache[ToUpperCase(frame["a"].key)].result
         \in {frame["a"].result, frame["calc"].result}


(***************************************************************************)
(* The transactions routes (app/api/transactions/route.ts) on the          *)
(* transactions table (002_add_transactions.sql)                           *)
(***************************************************************************)

\* Most requests the handlers take in one behaviour.
MaxRequests == 3

\* String.prototype.trim on the blank character
RECURSIVE TrimStart(_)
TrimStart(str) ==
    IF str # <<>> /\ Head(str) = " " THEN TrimStart(Tail(str)) ELSE str

RECURSIVE TrimEnd(_)
TrimEnd(str) ==
    IF str # <<>> /\ str[Len(str)] = " "
    THEN TrimEnd(SubSeq(str, 1, Len(str) - 1))
    ELSE str

Trim(str) == TrimEnd(TrimStart(str))

\* SUM(CASE WHEN transaction_type = 'BUY' THEN quantity ELSE -quantity END)
\* over the rows of one group
RECURSIVE GroupSum(_, _, _)
GroupSum(rows, symbol, market_type) ==
    IF rows = <<>> THEN 0
    ELSE (IF Head(rows).symbol = symbol /\ Head(rows).market_type = market_type
          THEN SignedQty(Head(rows)) ELSE 0)
         + GroupSum(Tail(rows), symbol, market_type)

\* GROUP BY symbol, market_type
TableGroups(rows) ==
    { <<rows[i].symbol, rows[i].market_type>> : i \in 1..Len(rows) }

\* Mutant of current_holdings: the view adds up the BUY rows only.
current_holdings_buys(rows) ==
    { [symbol |-> g[1], market_type |-> g[2],
       quantity |-> GroupSum(SelectSeq(rows, LAMBDA r : r.transaction_type = "BUY"),
                             g[1], g[2])] :
        g \in { h \in TableGroups(rows) :
                  GroupSum(SelectSeq(rows, LAMBDA r : r.transaction_type = "BUY"),
                           h[1], h[2]) > 0 } }

\* The view current_holdings: one row per group whose sum is positive.
current_holdings(rows) ==
    { [symbol |-> g[1], market_type |-> g[2],
       quantity |-> GroupSum(rows, g[1], g[2])] :
        g \in { h \in TableGroups(rows) : GroupSum(rows, h[1], h[2]) > 0 } }

\* holdings?.quantity || 0 of the row .eq('symbol').eq('market_type').single()
HoldingQuantity(view, symbol, market_type) ==
    LET found == { h \in view : h.symbol = symbol /\ h.market_type = market_type }
    IN  IF found = {} THEN 0 ELSE (CHOOSE h \in found : TRUE).quantity

\* new Date().toISOString().split('T')[0]
Today(t) == (t \div DayMs) * DayMs

\* The JSON bodies sent to POST: quantity 0 is not positive, the empty
\* transaction_type is an absent one, "FX" is no market type.
PostBodies ==
    { [symbol |-> s, market_type |-> m, transaction_type |-> tt, quantity |-> q] :
        s \in {AAPL, ToLowerCase(AAPL)}, m \in {"US"},
        tt \in {"", "BUY", "SELL"}, q \in {1, 2} }
    \cup
    { [symbol |-> Tencent700, market_type |-> "HK", transaction_type |-> tt,
       quantity |-> 1] : tt \in {"BUY", "SELL"} }
    \cup
    { [symbol |-> AAPL, market_type |-> "US", transaction_type |-> "SELL",
       quantity |-> 0],
      [symbol |-> <<>>, market_type |-> "US", transaction_type |-> "BUY",
       quantity |-> 1],
      [symbol |-> AAPL, market_type |-> "FX", transaction_type |-> "BUY",
       quantity |-> 1],
      [symbol |-> AAPL, market_type |-> "US", transaction_type |-> "HOLD",
       quantity |-> 1] }

\* The validation of POST, lines 186-216: the status it answers with, or 0
\* when the body passes.
PostValidation(body) ==
    IF body.symbol = <<>> \/ body.market_type = "" \/ body.quantity = 0 THEN 400
    ELSE IF body.quantity <= 0 THEN 400
    ELSE IF body.market_type \notin {"US", "CN", "HK", "CRYPTO"} THEN 400
    ELSE IF (IF body.transaction_type = "" THEN "BUY" ELSE body.transaction_type)
             \notin {"BUY", "SELL"} THEN 400
    ELSE 0

\* const txType = transaction_type || 'BUY'
TxType(body) == IF body.transaction_type = "" THEN "BUY" ELSE body.transaction_type

\* insertData, with the id the table gives the row
InsertData(body, id, t) ==
    [id |-> id, symbol |-> ToUpperCase(Trim(body.symbol)),
     market_type |-> body.market_type, transaction_type |-> TxType(body),
     quantity |-> body.quantity, transaction_date |-> Today(t)]

\* POST /api/transactions up to its first query: the validation, then the
\* holdings query for a SELL or the insert for a BUY.
PostTransaction(c) ==
    /\ request[c].pc = "idle"
    /\ served < MaxRequests
    /\ \E body \in PostBodies :
         LET call == [IdleRequest EXCEPT !.route = "POST", !.body = body,
                                         !.serial = served + 1]
         IN  request' = [request EXCEPT ![c] =
                IF PostValidation(body) # 0
                THEN [call EXCEPT !.pc = "done", !.status = PostValidation(body)]
                ELSE IF TxType(body) = "SELL"
                     THEN [call EXCEPT !.pc = "holdings"]
                     ELSE [call EXCEPT !.pc = "insert"]]
    /\ served' = served + 1
    /\ UNCHANGED <<transactions, targetDate, holdings, ledgerPc, hist,
                   portfolio_snapshots, priceVars>>

\* The current_holdings query of a SELL is answered: lines 221-235.
PostHoldingsRead(c) ==
    /\ request[c].pc = "holdings"
    /\ LET body == request[c].body
           currentQty == HoldingQuantity(current_holdings(transactions),
                                         ToUpperCase(Trim(body.symbol)),
                                         body.market_type)
       IN  request' = [request EXCEPT ![c] =
              IF currentQty < body.quantity
              THEN [@ EXCEPT !.pc = "done", !.status = 400,
                             !.currentQty = currentQty]
              ELSE [@ EXCEPT !.pc = "insert", !.currentQty = currentQty]]
    /\ UNCHANGED <<transactions, targetDate, holdings, ledgerPc, hist,
                   portfolio_snapshots, served, priceVars>>

\* The insert is answered: the row is in the table (201), or the database
\* reported an error (500).
PostInsert(c) ==
    /\ request[c].pc = "insert"
    /\ \E error \in BOOLEAN :
         IF error
         THEN /\ request' = [request EXCEPT ![c].pc = "done", ![c].status = 500]
              /\ UNCHANGED transactions
         ELSE /\ transactions' =
                   Append(transactions,
                          InsertData(request[c].body, request[c].serial, now))
              /\ request' = [request EXCEPT ![c].pc = "done", ![c].status = 201,
                                            ![c].inserted = 1]
    /\ UNCHANGED <<targetDate, holdings, ledgerPc, hist, portfolio_snapshots,
                   served, priceVars>>

\* The response is sent and the connection is free again.
Respond(c) ==
    /\ request[c].pc = "done"
    /\ request' = [request EXCEPT ![c] = IdleRequest]
    /\ UNCHANGED <<transactions, targetDate, holdings, ledgerPc, hist,
                   portfolio_snapshots, served, priceVars>>

InitRoutes == PriceIdle /\ LedgerIdle

\* POST requests one after the other.
NextPosts ==
    \/ PostTransaction("c1")
    \/ PostHoldingsRead("c1")
    \/ PostInsert("c1")
    \/ Respond("c1")

SpecPosts == InitRoutes /\ [][NextPosts]_vars

\* POST requests on two connections, interleaved at their awaits.
NextOverlap ==
    \E c \in Connections :
        \/ PostTransaction(c)
        \/ PostHoldingsRead(c)
        \/ PostInsert(c)
        \/ Respond(c)

SpecOverlap == InitRoutes /\ [][NextOverlap]_vars


\* The ids a request can name: those of rows the table ever held, and one
\* that never existed.
RowIds == 1..(MaxRequests + 1)

\* The JSON bodies sent to PUT: only the fields present are updated.
PutBodies ==
    { [f \in {} |-> 0],
      [f \in {"quantity"} |-> 0],
      [f \in {"quantity"} |-> 2],
      [f \in {"transaction_type"} |-> "SELL"],
      [f \in {"transaction_type"} |-> "HOLD"],
      [f \in {"market_type"} |-> "CASH"],
      [f \in {"symbol"} |-> ToLowerCase(AAPL)] }

\* The validation of PUT, lines 346-403: the status it answers with, or 0.
PutValidation(body) ==
    IF "market_type" \in DOMAIN body
       /\ body["market_type"] \notin {"US", "CN", "HK", "CRYPTO", "CASH"} THEN 400
    ELSE IF "transaction_type" \in DOMAIN body
            /\ body["transaction_type"] \notin {"BUY", "SELL"} THEN 400
    ELSE IF "quantity" \in DOMAIN body /\ body["quantity"] <= 0 THEN 400
    ELSE IF DOMAIN body = {} THEN 400
    ELSE 0

\* updateData, lines 344-396
UpdateData(body) ==
    [f \in DOMAIN body |->
        IF f = "symbol" THEN ToUpperCase(Trim(body[f])) ELSE body[f]]

\* UPDATE transactions SET ... WHERE id = ...
UpdatedRows(rows, id, updateData) ==
    [i \in 1..Len(rows) |->
        IF rows[i].id = id
        THEN [f \in DOMAIN rows[i] |->
                IF f \in DOMAIN updateData THEN updateData[f] ELSE rows[i][f]]
        ELSE rows[i]]

\* DELETE FROM transactions WHERE id = ...
RemainingRows(rows, id) == SelectSeq(rows, LAMBDA r : r.id # id)

HasRow(rows, id) == \E i \in 1..Len(rows) : rows[i].id = id

\* What the column types and checks of the table accept: market_type is
\* market_type_enum (with the added value CASH), quantity > 0.
RowAccepted(row) ==
    /\ row.market_type \in {"US", "CN", "HK", "CRYPTO", "CASH"}
    /\ row.transaction_type \in {"BUY", "SELL"}
    /\ row.quantity > 0

\* PUT /api/transactions/[id] up to its update query.
PutTransaction(c) ==
    /\ request[c].pc = "idle"
    /\ served < MaxRequests
    /\ \E id \in RowIds, body \in PutBodies :
         LET call == [IdleRequest EXCEPT !.route = "PUT",
                                         !.body = [id |-> id, fields |-> body]]
         IN  request' = [request EXCEPT ![c] =
                IF PutValidation(body) # 0
                THEN [call EXCEPT !.pc = "done", !.status = PutValidation(body)]
                ELSE [call EXCEPT !.pc = "update"]]
    /\ served' = served + 1
    /\ UNCHANGED <<transactions, targetDate, holdings, ledgerPc, hist,
                   portfolio_snapshots, priceVars>>

\* The update is answered: no row with the id (PGRST116, 404), an error of
\* the database (500), or the row updated.
PutUpdate(c) ==
    /\ request[c].pc = "update"
    /\ LET id == request[c].body.id
           after == UpdatedRows(transactions, id,
                                UpdateData(request[c].body.fields))
       IN  IF ~HasRow(transactions, id)
           THEN /\ request' = [request EXCEPT ![c].pc = "done", ![c].status = 404]
                /\ UNCHANGED transactions
           ELSE \E error \in BOOLEAN :
                  IF error \/ \E i \in 1..Len(after) : ~RowAccepted(after[i])
                  THEN /\ request' = [request EXCEPT ![c].pc = "done",
                                                     ![c].status = 500]
                       /\ UNCHANGED transactions
                  ELSE /\ transactions' = after
                       /\ request' = [request EXCEPT ![c].pc = "done",
                                                     ![c].status = 200]
    /\ UNCHANGED <<targetDate, holdings, ledgerPc, hist, portfolio_snapshots,
                   served, priceVars>>

\* DELETE /api/transactions/[id] up to its first query.
DeleteTransaction(c) ==
    /\ request[c].pc = "idle"
    /\ served < MaxRequests
    /\ \E id \in RowIds :
         request' = [request EXCEPT ![c] =
                       [IdleRequest EXCEPT !.route = "DELETE", !.pc = "exists",
                                           !.body = [id |-> id]]]
    /\ served' = served + 1
    /\ UNCHANGED <<transactions, targetDate, holdings, ledgerPc, hist,
                   portfolio_snapshots, priceVars>>

\* The select of the row is answered: lines 449-460.
DeleteExists(c) ==
    /\ request[c].pc = "exists"
    /\ \E checkError \in BOOLEAN :
         request' = [request EXCEPT ![c] =
            IF checkError \/ ~HasRow(transactions, request[c].body.id)
            THEN [@ EXCEPT !.pc = "done", !.status = 404]
            ELSE [@ EXCEPT !.pc = "delete"]]
    /\ UNCHANGED <<transactions, targetDate, holdings, ledgerPc, hist,
                   portfolio_snapshots, served, priceVars>>

\* The delete is answered: lines 462-475.
DeleteRow(c) ==
    /\ request[c].pc = "delete"
    /\ \E error \in BOOLEAN :
         IF error
         THEN /\ request' = [request EXCEPT ![c].pc = "done", ![c].status = 500]
              /\ UNCHANGED transactions
         ELSE /\ transactions' = RemainingRows(transactions, request[c].body.id)
              /\ request' = [request EXCEPT ![c].pc = "done", ![c].status = 200]
    /\ UNCHANGED <<targetDate, holdings, ledgerPc, hist, portfolio_snapshots,
                   served, priceVars>>

\* POST, PUT and DELETE requests one after the other.
NextEdits ==
    \/ PostTransaction("c1")
    \/ PostHoldingsRead("c1")
    \/ PostInsert("c1")
    \/ PutTransaction("c1")
    \/ PutUpdate("c1")
    \/ DeleteTransaction("c1")
    \/ DeleteExists("c1")
    \/ DeleteRow("c1")
    \/ Respond("c1")

SpecEdits == InitRoutes /\ [][NextEdits]_vars

(***************************************************************************)
(* Claims about the transactions routes                                    *)
(***************************************************************************)

\* Sum of the BUY quantities minus sum of the SELL quantities of the group
\* of row i.
NetOfRow(rows, i) == GroupSum(rows, rows[i].symbol, rows[i].market_type)

NetNonNegative == \A i \in 1..Len(transactions) : NetOfRow(transactions, i) >= 0

\* The holdings query of a SELL is answered while the asked quantity
\* exceeds the net quantity of its (symbol, market).
OversellChecked(c) ==
    /\ request[c].pc = "holdings"
    /\ request'[c].pc # "holdings"
    /\ request[c].body.quantity >
         GroupSum(transactions, ToUpperCase(Trim(request[c].body.symbol)),
                  request[c].body.market_type)

\* C25: a POST SELL whose quantity exceeds the current net holding of its
\* (symbol, market), no holding included, is answered 400 and inserts
\* nothing; after any sequence of POST requests made one after the other
\* from an empty ledger the net quantity of every (symbol, market) is >= 0.
C25_PostRejectsOversell ==
    /\ [](NetNonNegative
          /\ \A c \in Connections :
               request[c].status = 400 => request[c].inserted = 0)
    /\ [][\A c \in Connections :
            OversellChecked(c) =>
               /\ request'[c].pc = "done"
               /\ request'[c].status = 400
               /\ transactions' = transactions]_vars

\* A SELL of 2 was rejected against a holding of 1 that an earlier accepted
\* SELL had left.
C25_Witness ==
    /\ request["c1"].pc = "done"
    /\ request["c1"].route = "POST"
    /\ request["c1"].status = 400
    /\ request["c1"].body.transaction_type = "SELL"
    /\ request["c1"].body.quantity = 2
    /\ request["c1"].currentQty = 1
    /\ Len(transactions) = 2
    /\ transactions[2].transaction_type = "SELL"

\* C26: with POST requests overlapping on two connections the net quantity
\* of every (symbol, market) stays >= 0: two SELLs that together exceed the
\* holding are never both inserted.
C26_NoConcurrentOversell ==
    \A g \in TableGroups(transactions) : GroupSum(transactions, g[1], g[2]) >= 0

\* C27: after any PUT or DELETE on /api/transactions/[id] the net quantity
\* of every (symbol, market) is still >= 0.
C27_EditsKeepNetNonNegative ==
    \A c \in Connections :
        (request[c].pc = "done" /\ request[c].route \in {"PUT", "DELETE"})
           => \A g \in TableGroups(transactions) :
                 GroupSum(transactions, g[1], g[2]) >= 0


(***************************************************************************)
(* The snapshot job (app/api/cron/update-nav/route.ts)                     *)
(***************************************************************************)

\* Most runs of the snapshot job in one behaviour.
MaxRuns == 2

\* process.env.CRON_SECRET: unset, or a secret.
CronSecrets == {"", "s3cret"}

\* The Authorization header of the request, in words: absent (no word), or
\* scheme and token.
AuthHeaders ==
    {<<>>, <<"Bearer", "s3cret">>, <<"Bearer", "guess">>, <<"Basic", "s3cret">>,
     <<"s3cret">>}

\* cronSecret && authHeader !== `Bearer ${cronSecret}`
Unauthorized(cronSecret, authHeader) ==
    cronSecret # "" /\ authHeader # <<"Bearer", cronSecret>>

\* What the assets table can hold.
AssetsTables ==
    { <<>>,
      <<[symbol |-> AAPL, market_type |-> "US", quantity |-> 2]>>,
      <<[symbol |-> Tencent700, market_type |-> "HK", quantity |-> 1],
        [symbol |-> Btc, market_type |-> "CRYPTO", quantity |-> 1]>> }

\* CHECK (total_value >= 0) of portfolio_snapshots
SnapshotAccepted(row) == row.total_value >= 0

\* POST or GET /api/cron/update-nav up to the assets query: the check of
\* the secret, lines 16-24.
UpdateNav(c) ==
    /\ request[c].pc = "idle"
    /\ served < MaxRuns
    /\ \E method \in {"POST", "GET"}, cronSecret \in CronSecrets,
          authHeader \in AuthHeaders :
         LET call == [IdleRequest EXCEPT
                        !.route = "CRON",
                        !.body = [method |-> method, cronSecret |-> cronSecret,
                                  authorization |-> authHeader]]
         IN  request' = [request EXCEPT ![c] =
                IF Unauthorized(cronSecret, authHeader)
                THEN [call EXCEPT !.pc = "done", !.status = 401]
                ELSE [call EXCEPT !.pc = "assets"]]
    /\ served' = served + 1
    /\ UNCHANGED <<transactions, targetDate, holdings, ledgerPc, hist,
                   portfolio_snapshots, priceVars>>

\* The assets query is answered: an error (500), no assets (the zero
\* snapshot is inserted next), or the assets, with which
\* calculatePortfolioTotal starts (lines 29-80).
UpdateNavAssets(c) ==
    /\ request[c].pc = "assets"
    /\ \E assetsError \in BOOLEAN, assets \in AssetsTables,
          base \in BaseCurrencies :
         IF assetsError
         THEN /\ request' = [request EXCEPT ![c].pc = "done", ![c].status = 500,
                                            ![c].reads = 1]
              /\ UNCHANGED <<calc, fxVars>>
         ELSE IF assets = <<>>
         THEN /\ request' = [request EXCEPT ![c].pc = "zero", ![c].reads = 1]
              /\ UNCHANGED <<calc, fxVars>>
         ELSE /\ request' = [request EXCEPT ![c].pc = "valuing", ![c].reads = 1]
              /\ calc' = [IdleCalc EXCEPT !.pc = "loop", !.assets = assets,
                                          !.baseCurrency = base, !.i = 1]
              /\ rateCache' = EmptyMap
              /\ fx' = IdleFx
    /\ UNCHANGED <<transactions, targetDate, holdings, ledgerPc, hist,
                   portfolio_snapshots, served, clockVars, priceCache, got,
                   written, fetchVars>>

\* insert({total_value, recorded_at}) is answered: the row is in the
\* table, or the database reported an error (500).
SnapshotInserted(c, total_value) ==
    \E insertError \in BOOLEAN :
        LET row == [total_value |-> total_value, recorded_at |-> now]
        IN  IF insertError \/ ~SnapshotAccepted(row)
            THEN /\ request' = [request EXCEPT ![c].pc = "done",
                                               ![c].status = 500]
                 /\ UNCHANGED portfolio_snapshots
            ELSE /\ portfolio_snapshots' = Append(portfolio_snapshots, row)
                 /\ request' = [request EXCEPT ![c].pc = "done",
                                               ![c].status = 200,
                                               ![c].inserted = @ + 1]

\* No assets: the zero snapshot, lines 44-70.
UpdateNavZero(c) ==
    /\ request[c].pc = "zero"
    /\ SnapshotInserted(c, 0)
    /\ UNCHANGED <<transactions, targetDate, holdings, ledgerPc, hist, served,
                   priceVars>>

\* calculatePortfolioTotal returned: the snapshot of its total, lines 92-118.
UpdateNavValued(c) ==
    /\ request[c].pc = "valuing"
    /\ calc.pc = "returned"
    /\ SnapshotInserted(c, calc.returned)
    /\ UNCHANGED <<transactions, targetDate, holdings, ledgerPc, hist, served,
                   priceVars>>

InitCron == PriceIdle /\ LedgerIdle

NextCron ==
    \/ UpdateNav("c1")
    \/ UpdateNavAssets("c1")
    \/ CalcNextAsset
    \/ TencentResponse("calc")
    \/ YahooResponse("calc")
    \/ GeckoResponse("calc")
    \/ CalcPriced
    \/ FxResponse
    \/ CalcConverted
    \/ CalcDelayElapsed
    \/ CalcFinish
    \/ UpdateNavZero("c1")
    \/ UpdateNavValued("c1")
    \/ Respond("c1")

SpecCron == InitCron /\ [][NextCron]_vars

\* C28: with CRON_SECRET set, a request whose Authorization header is not
\* 'Bearer <CRON_SECRET>' is answered 401 with no asset read and no insert;
\* an authorized call inserts at most one snapshot, and none when the asset
\* read failed or when its valuation failed, that is when a position could
\* not be converted to the base currency.
C28_CronGuardedSnapshot ==
    \A c \in Connections :
        request[c].route = "CRON" =>
            /\ (request[c].body.cronSecret # ""
                /\ request[c].body.authorization
                     # <<"Bearer", request[c].body.cronSecret>>)
                 => /\ request[c].pc = "done"
                    /\ request[c].status = 401
                    /\ request[c].reads = 0
                    /\ request[c].inserted = 0
            /\ request[c].inserted <= 1
            /\ (request[c].pc = "done" /\ request[c].status = 500)
                 => request[c].inserted = 0
            /\ (request[c].pc = "done" /\ request[c].reads = 1
                /\ calc.unconverted # {})
                 => request[c].inserted = 0


(***************************************************************************)
(* Claims about the symbols a history leaves unpriced                      *)
(***************************************************************************)

\* Net quantity of the (symbol, market) g over the rows dated t or earlier.
NetAsOf(rows, g, t) ==
    GroupSum(SelectSeq(rows, LAMBDA r : r.transaction_date <= t), g[1], g[2])

\* The (symbol, market) pairs the valuation could not price or convert.
FailedGroups ==
    { <<calc.assets[i].symbol, calc.assets[i].market_type>> :
        i \in calc.unpriced \cup calc.unconverted }

\* What the (symbol, market) g adds to the point of time t.
Contribution(g, t) ==
    IF NetAsOf(transactions, g, hist.now) <= 0 THEN 0
    ELSE IF g \in FailedGroups THEN 0
    ELSE IF NetAsOf(transactions, g, t) <= 0 THEN 0
    ELSE NetAsOf(transactions, g, t) * hist.pricesInBaseCurrency[g]

RECURSIVE Contributions(_, _)
Contributions(groups, t) ==
    IF groups = {} THEN 0
    ELSE LET g == CHOOSE h \in groups : TRUE
         IN  Contribution(g, t) + Contributions(groups \ {g}, t)

\* C30: in a generated history a frozen price exists only for the pairs
\* whose net quantity as of today is > 0; a pair sold out as of today adds
\* 0 to every day, the days it was held included; a pair whose pricing
\* failed adds 0 to every day; and the series has a point for every day
\* from its start date to today all the same.
C30_UnpricedContributeZero ==
    (hist.pc = "done" /\ hist.response = "generated") =>
        /\ \A g \in DOMAIN hist.pricesInBaseCurrency :
             NetAsOf(transactions, g, hist.now) > 0
        /\ \A k \in 1..Len(hist.snapshots) :
             /\ hist.snapshots[k].recorded_at = hist.startDate + (k - 1) * DayMs
             /\ hist.snapshots[k].total_value
                = Contributions(TableGroups(transactions),
                                hist.snapshots[k].recorded_at)
        /\ hist.startDate + Len(hist.snapshots) * DayMs > hist.now

\* AAPL was bought before today and sold out today: the history has a
\* point for each day, the days AAPL was held included, all of value 0,
\* and no price was frozen.
C30_Witness ==
    /\ hist.pc = "done"
    /\ hist.response = "generated"
    /\ Len(transactions) = 2
    /\ NetAsOf(transactions, <<AAPL, "US">>, hist.now - DayMs) = 2
    /\ NetAsOf(transactions, <<AAPL, "US">>, hist.now) = 0
    /\ Len(hist.snapshots) >= 2
    /\ \A k \in 1..Len(hist.snapshots) : hist.snapshots[k].total_value = 0
    /\ hist.pricesInBaseCurrency = EmptyMap

\* The pricing of the only holding failed: the history still has a point
\* for each day, all of value 0.
C30_WitnessUnpriced ==
    /\ hist.pc = "done"
    /\ hist.response = "generated"
    /\ calc.unpriced # {}
    /\ Len(hist.snapshots) >= 2
    /\ \A k \in 1..Len(hist.snapshots) : hist.snapshots[k].total_value = 0


(***************************************************************************)
(* GET /api/portfolio-snapshots (app/api/portfolio-snapshots/route.ts)     *)
(***************************************************************************)

\* What the transactions table holds when the requests arrive.
SnapshotLedgers ==
    { <<>>,
      <<[symbol |-> AAPL, market_type |-> "US", transaction_type |-> "BUY",
         quantity |-> 2, transaction_date |-> 1 * DayMs]>>,
      <<[symbol |-> Tencent700, market_type |-> "HK", transaction_type |-> "BUY",
         quantity |-> 2, transaction_date |-> 2 * DayMs],
        [symbol |-> Tencent700, market_type |-> "HK", transaction_type |-> "SELL",
         quantity |-> 1, transaction_date |-> 3 * DayMs]>>,
      <<[symbol |-> AAPL, market_type |-> "US", transaction_type |-> "BUY",
         quantity |-> 2, transaction_date |-> 1 * DayMs],
        [symbol |-> AAPL, market_type |-> "US", transaction_type |-> "SELL",
         quantity |-> 2, transaction_date |-> 3 * DayMs]>>,
      <<[symbol |-> Btc, market_type |-> "CRYPTO", transaction_type |-> "BUY",
         quantity |-> 2, transaction_date |-> 3 * DayMs]>> }

\* What the portfolio_snapshots table holds: nothing, one row of day 1, or
\* rows of day 1 and of day 3.
StoredTables ==
    { <<>>,
      <<[total_value |-> 7000, recorded_at |-> 1 * DayMs + 500]>>,
      <<[total_value |-> 7000, recorded_at |-> 1 * DayMs + 500],
        [total_value |-> 9000, recorded_at |-> 3 * DayMs + 500]>> }

\* The query parameter days: '0', '1' or '2'.  Requests without the
\* parameter (a window of 30 days) are not among the inputs.
DaysParams == {0, 1, 2}

\* The query parameter limit: '0', which is ignored like an absent one, or
\* '1'.
LimitParams == {0, 1}

\* .gte('recorded_at', cutoffDate) when days is given, .limit(n) when
\* limit is given, in ascending order of recorded_at
StoredSnapshots(rows, days, limit, t) ==
    LET inWindow == IF days > 0
                    THEN SelectSeq(rows, LAMBDA r : r.recorded_at >= t - days * DayMs)
                    ELSE rows
    IN  IF limit > 0 /\ Len(inWindow) > limit THEN SubSeq(inWindow, 1, limit)
        ELSE inWindow

\* parseInt(days || '30', 10) of a days parameter that is present
DaysBack(days) == days

\* The rows of a view in the order the database returns them: any order.
RowOrders(view) ==
    { order \in [1..Cardinality(view) -> view] :
        \A h \in view : \E i \in 1..Cardinality(view) : order[i] = h }

\* GET up to its snapshots query: lines 55-86.
GetSnapshots(c) ==
    /\ request[c].pc = "idle"
    /\ served < MaxRuns
    /\ \E days \in DaysParams, limit \in LimitParams, includeHistory \in BOOLEAN,
          base \in BaseCurrencies :
         request' = [request EXCEPT ![c] =
            [IdleRequest EXCEPT
               !.route = "GET", !.pc = "stored",
               !.body = [days |-> days, limit |-> limit,
                         includeHistory |-> includeHistory,
                         baseCurrency |-> base]]]
    /\ served' = served + 1
    /\ UNCHANGED <<transactions, targetDate, holdings, ledgerPc, hist,
                   portfolio_snapshots, priceVars>>

\* The snapshots query is answered: the stored snapshots are returned, or
\* generateHistoryFromTransactions or calculateCurrentPortfolioValue is
\* called and sends its first query (lines 86-104, 212-215, 154-156).
GetStoredRead(c) ==
    /\ request[c].pc = "stored"
    /\ \E snapshotsError \in BOOLEAN :
         LET storedSnapshots ==
                 IF snapshotsError THEN <<>>
                 ELSE StoredSnapshots(portfolio_snapshots, request[c].body.days,
                                      request[c].body.limit, now)
         IN  request' = [request EXCEPT ![c] =
                IF storedSnapshots # <<>>
                THEN [@ EXCEPT !.pc = "done", !.status = 200, !.source = "stored",
                               !.stored = storedSnapshots,
                               !.snapshots = storedSnapshots]
                ELSE IF request[c].body.includeHistory
                     THEN [@ EXCEPT !.pc = "history"]
                     ELSE [@ EXCEPT !.pc = "view"]]
    /\ UNCHANGED <<transactions, targetDate, holdings, ledgerPc, hist,
                   portfolio_snapshots, served, priceVars>>

\* The transactions query of generateHistoryFromTransactions is answered.
GetHistory(c) ==
    /\ request[c].pc = "history"
    /\ hist.pc = "idle"
    /\ \E txError \in BOOLEAN, tick \in {0, 1} :
         GenerateHistoryFrom(request[c].body.baseCurrency,
                             DaysBack(request[c].body.days), txError, tick)

\* generateHistoryFromTransactions returned its response.
GetHistoryReturned(c) ==
    /\ request[c].pc = "history"
    /\ hist.pc = "done"
    /\ request' = [request EXCEPT
                     ![c].pc = "done", ![c].status = 200,
                     ![c].source = (CASE hist.response = "generated" -> "generated"
                                      [] hist.response = "empty" -> "calculated"
                                      [] OTHER -> ""),
                     ![c].txError = (hist.response = "error"),
                     ![c].snapshots = hist.snapshots]
    /\ hist' = IdleHist
    /\ UNCHANGED <<transactions, targetDate, holdings, ledgerPc,
                   portfolio_snapshots, served, priceVars>>

\* Mutant of ValueHoldings: without holdings there is no current value.
ValueHoldingsOrNone(c, hs) ==
    IF hs = <<>>
    THEN /\ request' = [request EXCEPT
                          ![c].pc = "done", ![c].status = 200,
                          ![c].source = "empty", ![c].snapshots = <<>>]
         /\ UNCHANGED <<calc, fxVars>>
    ELSE /\ request' = [request EXCEPT ![c].pc = "valuing"]
         /\ calc' = [IdleCalc EXCEPT !.pc = "loop", !.assets = AssetsOf(hs),
                                     !.baseCurrency = request[c].body.baseCurrency,
                                     !.i = 1]
         /\ rateCache' = EmptyMap
         /\ fx' = IdleFx

\* calculateCurrentPortfolioValue with these holdings: 0 without holdings,
\* else calculatePortfolioTotal starts (lines 180-193).
ValueHoldings(c, hs) ==
    IF hs = <<>>
    THEN /\ request' = [request EXCEPT
                          ![c].pc = "done", ![c].status = 200,
                          ![c].source = "calculated",
                          ![c].currentValue = [value |-> 0],
                          ![c].snapshots = <<[total_value |-> 0,
                                              recorded_at |-> now]>>]
         /\ UNCHANGED <<calc, fxVars>>
    ELSE /\ request' = [request EXCEPT ![c].pc = "valuing"]
         /\ calc' = [IdleCalc EXCEPT !.pc = "loop", !.assets = AssetsOf(hs),
                                     !.baseCurrency = request[c].body.baseCurrency,
                                     !.i = 1]
         /\ rateCache' = EmptyMap
         /\ fx' = IdleFx

\* The current_holdings query is answered: its rows are the holdings, or,
\* on an error or without rows, the transactions query is sent.
GetCurrentView(c) ==
    /\ request[c].pc = "view"
    /\ \E viewError \in BOOLEAN :
         IF viewError \/ current_holdings(transactions) = {}
         THEN /\ request' = [request EXCEPT ![c].pc = "fallback"]
              /\ UNCHANGED <<calc, fxVars>>
         ELSE \E viewData \in RowOrders(current_holdings(transactions)) :
                 ValueHoldings(c, viewData)
    /\ UNCHANGED <<transactions, targetDate, holdings, ledgerPc, hist,
                   portfolio_snapshots, served, clockVars, priceCache, got,
                   written, fetchVars>>

\* The transactions query is answered: no current value on an error or
\* without transactions (the response is 'empty'), else the holdings as of
\* now (lines 166-178).
GetCurrentFallback(c) ==
    /\ request[c].pc = "fallback"
    /\ \E txError \in BOOLEAN :
         IF txError \/ transactions = <<>>
         THEN /\ request' = [request EXCEPT
                               ![c].pc = "done", ![c].status = 200,
                               ![c].source = "empty", ![c].txError = txError,
                               ![c].snapshots = <<>>]
              /\ UNCHANGED <<calc, fxVars>>
         ELSE ValueHoldings(c, calculateHoldingsAtDate(transactions, now))
    /\ UNCHANGED <<transactions, targetDate, holdings, ledgerPc, hist,
                   portfolio_snapshots, served, clockVars, priceCache, got,
                   written, fetchVars>>

\* calculatePortfolioTotal returned: the single point of the current value.
GetCurrentValued(c) ==
    /\ request[c].pc = "valuing"
    /\ calc.pc = "returned"
    /\ request' = [request EXCEPT
                     ![c].pc = "done", ![c].status = 200,
                     ![c].source = "calculated",
                     ![c].currentValue = [value |-> calc.returned],
                     ![c].snapshots = <<[total_value |-> calc.returned,
                                         recorded_at |-> now]>>]
    /\ UNCHANGED <<transactions, targetDate, holdings, ledgerPc, hist,
                   portfolio_snapshots, served, priceVars>>

InitSnapshots ==
    /\ transactions \in SnapshotLedgers
    /\ targetDate = 0
    /\ holdings = <<>>
    /\ ledgerPc = "idle"
    /\ hist = IdleHist
    /\ portfolio_snapshots \in StoredTables
    /\ request = [c \in Connections |-> IdleRequest]
    /\ served = 0
    /\ now \in HistNows
    /\ ticks = 0
    /\ priceCache = EmptyMap
    /\ got = NoGet
    /\ written = EmptyMap
    /\ frame = [t \in Tasks |-> IdleFrame]
    /\ calls = 0
    /\ rateCache = EmptyMap
    /\ fx = IdleFx
    /\ calc = IdleCalc

NextSnapshots ==
    \/ GetSnapshots("c1")
    \/ GetStoredRead("c1")
    \/ GetHistory("c1")
    \/ HistoryPriced
    \/ GetHistoryReturned("c1")
    \/ GetCurrentView("c1")
    \/ GetCurrentFallback("c1")
    \/ GetCurrentValued("c1")
    \/ CalcNextAsset
    \/ TencentResponse("calc")
    \/ YahooResponse("calc")
    \/ GeckoResponse("calc")
    \/ CalcPriced
    \/ FxResponse
    \/ CalcConverted
    \/ CalcDelayElapsed
    \/ CalcFinish
    \/ Respond("c1")

SpecSnapshots == InitSnapshots /\ [][NextSnapshots]_vars


(***************************************************************************)
(* Claims about GET /api/portfolio-snapshots                               *)
(***************************************************************************)

\* The stored snapshots that match the query of the request on connection c.
MatchingSnapshots(c) ==
    LET days == request[c].body.days
        rows == SelectSeq(portfolio_snapshots,
                          LAMBDA r : days = 0 \/ r.recorded_at >= now - days * DayMs)
    IN  IF request[c].body.limit = 1 /\ rows # <<>> THEN <<rows[1]>> ELSE rows

\* The answer of a finished GET follows the precedence: stored snapshots,
\* then the generated history, then the single current point, then empty.
AnswerByPrecedence(c) ==
    IF request[c].stored # <<>>
    THEN /\ request[c].source = "stored"
         /\ request[c].stored = MatchingSnapshots(c)
         /\ request[c].snapshots = request[c].stored
         /\ request[c].currentValue = Null
    ELSE IF request[c].body.includeHistory
    THEN /\ request[c].source \in {"generated", "calculated", ""}
         /\ request[c].currentValue = Null
         /\ request[c].source # "generated" => request[c].snapshots = <<>>
    ELSE IF request[c].currentValue # Null
    THEN /\ request[c].source = "calculated"
         /\ Len(request[c].snapshots) = 1
         /\ request[c].snapshots[1].total_value = request[c].currentValue.value
    ELSE /\ request[c].source = "empty"
         /\ request[c].snapshots = <<>>
         /\ request[c].txError \/ transactions = <<>>

\* The stored answer is sent on the answer of the snapshots query, with no
\* pricing and no history generation.
StoredAnswerIsDirect(c) ==
    (request[c].pc = "stored" /\ request'[c].source = "stored")
       => /\ request'[c].pc = "done"
          /\ UNCHANGED <<calc, hist, frame, fx, rateCache, priceCache>>

\* The history answer carries the series generateHistoryFromTransactions
\* produced.
HistoryAnswerIsTheSeries(c) ==
    (request[c].pc = "history" /\ request'[c].pc = "done")
       => /\ hist.pc = "done"
          /\ request'[c].snapshots = hist.snapshots

=============================================================================
